---- MODULE Spec2Model ----
(***************************************************************************)
(* A model of the SAPAN screening program: the candlestick pattern         *)
(* detector, the scenario validator, the watch list store, the progress    *)
(* tracker and the concurrent evaluation pipeline.                         *)
(*                                                                         *)
(* Prices are small integers.  The indicator engine's numeric outputs for  *)
(* a 200-bar history (the four EMA levels, the Stochastic RSI result and   *)
(* the MACD/Signal relation at the last prefixes) are carried by a history *)
(* record as the values the calculators return for it; every comparison    *)
(* the validator and the detector make on them is modelled as in the code. *)
(***************************************************************************)
EXTENDS Integers, Sequences, FiniteSets, TLC

(***************************************************************************)
(* Bounds of the model.                                                    *)
(***************************************************************************)
MaxPrice == 3         \* candle prices range over 0..MaxPrice
MaxStocks == 2        \* longest symbol list of a pipeline run
MaxClients == 2       \* goroutines calling the WatchListManager
MaxCalls == 3         \* calls they make in all
MaxSeries == 5        \* longest price series of a calculator run
MaxLevel == 2         \* prices of a calculator run range over 0..MaxLevel
MaxPeriod == 2        \* largest period of a calculator run
MaxCfgRange == 12     \* largest configured worker count of the spawn runs

(***************************************************************************)
(* Program constants.                                                      *)
(***************************************************************************)
MaxWorkerCount == 10  \* settings.go: cap of GetOptimalWorkerCount
MinWorkerCount == 1   \* settings.go: floor of GetOptimalWorkerCount
MinCloses == 200      \* candlestick.go: closes validateSetup requires
OversoldLevel == 30   \* Stochastic RSI: %K below this is oversold
OverboughtLevel == 70 \* Stochastic RSI: %K above this is overbought
MACDSlowPeriod == 100 \* candlestick.go: slow period of validateMACDLong/Short
MaxMarketCount == 6   \* macd.go: the duration scan stops at this count
AcceptableCount == 5  \* macd.go: a count up to this is acceptable
StochRSIPeriod == 5   \* candlestick.go: RSI period of the Stochastic RSI checks
StochKPeriod == 3     \* candlestick.go: %K period of the Stochastic RSI checks
StochDPeriod == 3     \* candlestick.go: %D period of the Stochastic RSI checks

Prices == 0..MaxPrice

(***************************************************************************)
(* models.Candle: the fields the core reads (Date and Volume are unused).  *)
(***************************************************************************)
Candle(o, h, l, c) == [Open |-> o, High |-> h, Low |-> l, Close |-> c]

PatternTypes ==
    {"NoPattern", "Long2CandlestickReversal", "Short2CandlestickReversal",
     "LongPinbarReversal", "ShortPinbarReversal"}

(***************************************************************************)
(* float64 helpers.  abs/min/max as in candlestick.go.  A ratio num/den    *)
(* compared with the constant p/q: for den = 0 the quotient is +Inf, -Inf  *)
(* or NaN, and a comparison with NaN is false.  With the small integers    *)
(* used here the rounded quotient compares like the exact one.             *)
(***************************************************************************)
abs(x) == IF x < 0 THEN -x ELSE x

min(a, b) == IF a < b THEN a ELSE b

max(a, b) == IF a > b THEN a ELSE b

RatioGT(num, den, p, q) ==
    IF den > 0 THEN num * q > p * den
    ELSE IF den < 0 THEN num * q < p * den
    ELSE num > 0

RatioGE(num, den, p, q) ==
    IF den > 0 THEN num * q >= p * den
    ELSE IF den < 0 THEN num * q <= p * den
    ELSE num > 0

(***************************************************************************)
(* CandlestickPatternDetector.  emas is <<ema20, ema50, ema100, ema200>>.  *)
(***************************************************************************)
getLowestEMA(emas) ==
    LET s1 == emas[1]
        s2 == IF emas[2] < s1 THEN emas[2] ELSE s1
        s3 == IF emas[3] < s2 THEN emas[3] ELSE s2
    IN IF emas[4] < s3 THEN emas[4] ELSE s3

getHighestEMA(emas) ==
    LET s1 == emas[1]
        s2 == IF emas[2] > s1 THEN emas[2] ELSE s1
        s3 == IF emas[3] > s2 THEN emas[3] ELSE s2
    IN IF emas[4] > s3 THEN emas[4] ELSE s3

\* reversalBody := (Open + Close) / 2; reversalBody > emaSupport
isReversalBodyAboveSupport(candle, emas) ==
    candle.Open + candle.Close > 2 * getLowestEMA(emas)

isTailPiercingSupport(reversalCandle, previousCandle, emas) ==
    /\ reversalCandle.Low < getLowestEMA(emas)
    /\ reversalCandle.Low < previousCandle.Low

isBullishConfirmation(confirmationCandle, reversalCandle) ==
    IF confirmationCandle.Close <= reversalCandle.High THEN FALSE
    ELSE IF confirmationCandle.Close <= confirmationCandle.Open THEN FALSE
    ELSE confirmationCandle.Low > reversalCandle.Low

isReversalBodyBelowResistance(candle, emas) ==
    candle.Open + candle.Close < 2 * getHighestEMA(emas)

isTailPiercingResistance(reversalCandle, previousCandle, emas) ==
    /\ reversalCandle.High > getHighestEMA(emas)
    /\ reversalCandle.High > previousCandle.High

\* A bearish confirmation that looks at the falling highs alone.
isBearishConfirmation_HighsOnly(confirmationCandle, reversalCandle) ==
    confirmationCandle.High < reversalCandle.High

isBearishConfirmation(confirmationCandle, reversalCandle) ==
    IF confirmationCandle.Close >= reversalCandle.Low THEN FALSE
    ELSE IF confirmationCandle.Close >= confirmationCandle.Open THEN FALSE
    ELSE confirmationCandle.High < reversalCandle.High

isBullishPinbar(candle) ==
    LET bodySize == abs(candle.Close - candle.Open)
        totalRange == candle.High - candle.Low
        lowerWick == min(candle.Open, candle.Close) - candle.Low
    IN IF RatioGT(bodySize, totalRange, 3, 10) THEN FALSE
       ELSE RatioGE(lowerWick, totalRange, 6, 10)

isBearishPinbar(candle) ==
    LET bodySize == abs(candle.Close - candle.Open)
        totalRange == candle.High - candle.Low
        upperWick == candle.High - max(candle.Open, candle.Close)
    IN IF RatioGT(bodySize, totalRange, 3, 10) THEN FALSE
       ELSE RatioGE(upperWick, totalRange, 6, 10)

DetectLong2CandlestickReversal(candles, emas) ==
    IF Len(candles) < 3 THEN FALSE
    ELSE LET lastCandle == candles[Len(candles)]
             secondCandle == candles[Len(candles) - 1]
             firstCandle == candles[Len(candles) - 2]
         IN IF ~isReversalBodyAboveSupport(secondCandle, emas) THEN FALSE
            ELSE IF ~isTailPiercingSupport(secondCandle, firstCandle, emas) THEN FALSE
            ELSE IF ~isBullishConfirmation(lastCandle, secondCandle) THEN FALSE
            ELSE TRUE

DetectShort2CandlestickReversal(candles, emas) ==
    IF Len(candles) < 3 THEN FALSE
    ELSE LET lastCandle == candles[Len(candles)]
             secondCandle == candles[Len(candles) - 1]
             firstCandle == candles[Len(candles) - 2]
         IN IF ~isReversalBodyBelowResistance(secondCandle, emas) THEN FALSE
            ELSE IF ~isTailPiercingResistance(secondCandle, firstCandle, emas) THEN FALSE
            ELSE IF ~isBearishConfirmation(lastCandle, secondCandle) THEN FALSE
            ELSE TRUE

DetectLongPinbarReversal(candles, emas) ==
    IF Len(candles) < 3 THEN FALSE
    ELSE LET pinbar == candles[Len(candles) - 1]
             confirmation == candles[Len(candles)]
             emaSupport == getLowestEMA(emas)
         IN IF ~isBullishPinbar(pinbar) THEN FALSE
            ELSE IF pinbar.Open + pinbar.Close <= 2 * emaSupport THEN FALSE
            ELSE IF pinbar.Low >= emaSupport THEN FALSE
            ELSE IF ~isBullishConfirmation(confirmation, pinbar) THEN FALSE
            ELSE TRUE

DetectShortPinbarReversal(candles, emas) ==
    IF Len(candles) < 3 THEN FALSE
    ELSE LET pinbar == candles[Len(candles) - 1]
             confirmation == candles[Len(candles)]
             emaResistance == getHighestEMA(emas)
         IN IF ~isBearishPinbar(pinbar) THEN FALSE
            ELSE IF pinbar.Open + pinbar.Close >= 2 * emaResistance THEN FALSE
            ELSE IF pinbar.High <= emaResistance THEN FALSE
            ELSE IF ~isBearishConfirmation(confirmation, pinbar) THEN FALSE
            ELSE TRUE

\* A detector order a slip could produce: the pinbar checks before the
\* 2-candlestick checks.
DetectAllPatterns_PinbarFirst(candles, emas) ==
    IF Len(candles) < 3 THEN "NoPattern"
    ELSE IF DetectLongPinbarReversal(candles, emas) THEN "LongPinbarReversal"
    ELSE IF DetectShortPinbarReversal(candles, emas) THEN "ShortPinbarReversal"
    ELSE IF DetectLong2CandlestickReversal(candles, emas) THEN "Long2CandlestickReversal"
    ELSE IF DetectShort2CandlestickReversal(candles, emas) THEN "Short2CandlestickReversal"
    ELSE "NoPattern"

DetectAllPatterns(candles, emas) ==
    IF Len(candles) < 3 THEN "NoPattern"
    ELSE IF DetectLong2CandlestickReversal(candles, emas) THEN "Long2CandlestickReversal"
    ELSE IF DetectShort2CandlestickReversal(candles, emas) THEN "Short2CandlestickReversal"
    ELSE IF DetectLongPinbarReversal(candles, emas) THEN "LongPinbarReversal"
    ELSE IF DetectShortPinbarReversal(candles, emas) THEN "ShortPinbarReversal"
    ELSE "NoPattern"

(***************************************************************************)
(* A candle history as the validator sees it.  closesLen is len(candles);  *)
(* emas are the values EMACalculator.Calculate returns for the closes with *)
(* the periods 20, 50, 100, 200; stoch is the StochasticRSIResult of       *)
(* Calculate(closes, 5, 3, 3); macdCmp[i] is the sign of MACD - Signal of  *)
(* MACDCalculator.Calculate on the prefix that drops the last i-1 closes;  *)
(* tail holds the last (up to three) candles.                              *)
(***************************************************************************)
History(n, emas, k, crossover, macdCmp, tail) ==
    [closesLen |-> n, emas |-> emas, stoch |-> [K |-> k, Crossover |-> crossover],
     macdCmp |-> macdCmp, tail |-> tail]

\* EMACalculator.ValidateTrend: ema20 > ema50 && ema50 > ema100 && ema100 > ema200
ValidateTrend(h) ==
    h.emas[1] > h.emas[2] /\ h.emas[2] > h.emas[3] /\ h.emas[3] > h.emas[4]

\* EMACalculator.ValidateDowntrend
ValidateDowntrend(h) ==
    h.emas[1] < h.emas[2] /\ h.emas[2] < h.emas[3] /\ h.emas[3] < h.emas[4]

IsOversoldWithCrossover(h) == h.stoch.K < OversoldLevel /\ h.stoch.Crossover

IsOverboughtWithCrossover(h) == h.stoch.K > OverboughtLevel /\ h.stoch.Crossover

\* Sign of MACD - Signal of Calculate(prices[:n], ...): a prefix shorter than
\* the slow period gives the zero MACDResult.
MACDCompare(h, n) ==
    IF n < MACDSlowPeriod THEN 0 ELSE h.macdCmp[h.closesLen - n + 1]

\* The duration loop of IsBearMarketAcceptable, from index j with the count so far.
RECURSIVE BearishCount(_, _, _)
BearishCount(h, j, bearishCount) ==
    IF ~(j >= 0 /\ bearishCount < MaxMarketCount) THEN bearishCount
    ELSE IF j < 1 THEN bearishCount
    ELSE IF j + 1 >= MACDSlowPeriod
         THEN IF MACDCompare(h, j + 1) <= 0
              THEN BearishCount(h, j - 1, bearishCount + 1)
              ELSE bearishCount
         \* prices[:j+1] is shorter than the slow period, and so is every shorter
         \* prefix: the loop runs down to j < 1 without counting
         ELSE bearishCount

\* Variant of IsBearMarketAcceptable that also accepts a run of MaxMarketCount
\* bearish bars; the duration property tells the two apart.
IsBearMarketAcceptable_AcceptsSix(h) ==
    IF MACDCompare(h, h.closesLen) > 0 THEN TRUE
    ELSE BearishCount(h, h.closesLen - 1, 0) <= MaxMarketCount

IsBearMarketAcceptable(h) ==
    IF MACDCompare(h, h.closesLen) > 0 THEN TRUE
    ELSE BearishCount(h, h.closesLen - 1, 0) <= AcceptableCount

RECURSIVE BullishCount(_, _, _)
BullishCount(h, j, bullishCount) ==
    IF ~(j >= 0 /\ bullishCount < MaxMarketCount) THEN bullishCount
    ELSE IF j < 1 THEN bullishCount
    ELSE IF j + 1 >= MACDSlowPeriod
         THEN IF MACDCompare(h, j + 1) >= 0
              THEN BullishCount(h, j - 1, bullishCount + 1)
              ELSE bullishCount
         ELSE bullishCount

\* IsBullMarketAcceptable taking a tie at the last bar for a bear market.
IsBullMarketAcceptable_TieIsBear(h) ==
    IF MACDCompare(h, h.closesLen) <= 0 THEN TRUE
    ELSE BullishCount(h, h.closesLen - 1, 0) <= AcceptableCount

IsBullMarketAcceptable(h) ==
    IF MACDCompare(h, h.closesLen) < 0 THEN TRUE
    ELSE BullishCount(h, h.closesLen - 1, 0) <= AcceptableCount

(***************************************************************************)
(* SAPANStrategy.validateSetup.  The returned ValidationResult carries, in *)
(* Gates, the gates that were evaluated, in the order of evaluation.       *)
(***************************************************************************)
MsgInsufficient == "Insufficient data for analysis"
MsgEMALong == "EMA trend not in uptrend order (20 > 50 > 100 > 200)"
MsgEMAShort == "EMA trend not in downtrend order (20 < 50 < 100 < 200)"
MsgStochLong == "Stochastic RSI not in oversold region with crossover"
MsgStochShort == "Stochastic RSI not in overbought region with crossover"
MsgMACDLong == "MACD not in bull market or bear market exceeds 5 candlesticks"
MsgMACDShort == "MACD not in bear market or bull market exceeds 5 candlesticks"
MsgPatternLong == "Long reversal pattern not detected"
MsgPatternShort == "Short reversal pattern not detected"
MsgValidLong == "All SAPAN long strategy conditions met"
MsgValidShort == "All SAPAN short strategy conditions met"

NewValidationResult(symbol) ==
    [IsValid |-> FALSE, EMATrendValid |-> FALSE, StochasticValid |-> FALSE,
     MACDValid |-> FALSE, PatternValid |-> FALSE, PatternType |-> "NoPattern",
     Symbol |-> symbol, ValidationMessage |-> "", Gates |-> <<>>]

EMAGate(h, scenario) ==
    IF scenario = "Long" THEN ValidateTrend(h) ELSE ValidateDowntrend(h)

StochasticGate(h, scenario) ==
    IF scenario = "Long" THEN IsOversoldWithCrossover(h) ELSE IsOverboughtWithCrossover(h)

MACDGate(h, scenario) ==
    IF scenario = "Long" THEN IsBearMarketAcceptable(h) ELSE IsBullMarketAcceptable(h)

PatternGate(patternType, scenario) ==
    IF scenario = "Long"
    THEN patternType = "Long2CandlestickReversal" \/ patternType = "LongPinbarReversal"
    ELSE patternType = "Short2CandlestickReversal" \/ patternType = "ShortPinbarReversal"

\* The gates with the return after a failed Stochastic RSI gate missing: the
\* evaluation goes on to the MACD gate.
validateGates_NoReturnAfterStochastic(symbol, h, scenario) ==
    LET r0 == NewValidationResult(symbol)
        r1 == [r0 EXCEPT !.EMATrendValid = EMAGate(h, scenario),
                         !.Gates = Append(@, "ema")]
    IN IF ~r1.EMATrendValid
       THEN [r1 EXCEPT !.ValidationMessage =
                           IF scenario = "Long" THEN MsgEMALong ELSE MsgEMAShort]
       ELSE
       LET r2a == [r1 EXCEPT !.StochasticValid = StochasticGate(h, scenario),
                             !.Gates = Append(@, "stochastic")]
           r2 == IF ~r2a.StochasticValid
                 THEN [r2a EXCEPT !.ValidationMessage =
                           IF scenario = "Long" THEN MsgStochLong ELSE MsgStochShort]
                 ELSE r2a
           r3 == [r2 EXCEPT !.MACDValid = MACDGate(h, scenario),
                            !.Gates = Append(@, "macd")]
       IN IF ~r3.MACDValid
          THEN [r3 EXCEPT !.ValidationMessage =
                              IF scenario = "Long" THEN MsgMACDLong ELSE MsgMACDShort]
          ELSE
          LET r4a == [r3 EXCEPT !.PatternType = DetectAllPatterns(h.tail, h.emas),
                                !.Gates = Append(@, "pattern")]
              r4 == [r4a EXCEPT !.PatternValid = PatternGate(r4a.PatternType, scenario)]
          IN IF ~r4.PatternValid
             THEN [r4 EXCEPT !.ValidationMessage =
                       IF scenario = "Long" THEN MsgPatternLong ELSE MsgPatternShort]
             ELSE [r4 EXCEPT !.IsValid = TRUE,
                             !.ValidationMessage =
                       IF scenario = "Long" THEN MsgValidLong ELSE MsgValidShort]

\* validateSetup from the EMA gate on (the history has at least 200 closes).
validateGates(symbol, h, scenario) ==
    LET r0 == NewValidationResult(symbol)
        r1 == [r0 EXCEPT !.EMATrendValid = EMAGate(h, scenario),
                         !.Gates = Append(@, "ema")]
    IN IF ~r1.EMATrendValid
       THEN [r1 EXCEPT !.ValidationMessage =
                           IF scenario = "Long" THEN MsgEMALong ELSE MsgEMAShort]
       ELSE
       LET r2 == [r1 EXCEPT !.StochasticValid = StochasticGate(h, scenario),
                            !.Gates = Append(@, "stochastic")]
       IN IF ~r2.StochasticValid
          THEN [r2 EXCEPT !.ValidationMessage =
                              IF scenario = "Long" THEN MsgStochLong ELSE MsgStochShort]
          ELSE
          LET r3 == [r2 EXCEPT !.MACDValid = MACDGate(h, scenario),
                               !.Gates = Append(@, "macd")]
          IN IF ~r3.MACDValid
             THEN [r3 EXCEPT !.ValidationMessage =
                                 IF scenario = "Long" THEN MsgMACDLong ELSE MsgMACDShort]
             ELSE
             LET r4a == [r3 EXCEPT !.PatternType = DetectAllPatterns(h.tail, h.emas),
                                   !.Gates = Append(@, "pattern")]
                 r4 == [r4a EXCEPT !.PatternValid = PatternGate(r4a.PatternType, scenario)]
             IN IF ~r4.PatternValid
                THEN [r4 EXCEPT !.ValidationMessage =
                          IF scenario = "Long" THEN MsgPatternLong ELSE MsgPatternShort]
                ELSE [r4 EXCEPT !.IsValid = TRUE,
                                !.ValidationMessage =
                          IF scenario = "Long" THEN MsgValidLong ELSE MsgValidShort]

\* validateSetup without the check of len(closes).
validateSetup_NoLengthCheck(symbol, h, scenario) == validateGates(symbol, h, scenario)

\* validateSetup: fewer than 200 closes return at once; else the gates.
validateSetup(symbol, h, scenario) ==
    IF h.closesLen < MinCloses
    THEN [NewValidationResult(symbol) EXCEPT !.ValidationMessage = MsgInsufficient]
    ELSE validateGates(symbol, h, scenario)

ValidateLongSetup(symbol, h) == validateSetup(symbol, h, "Long")

\* ValidateShortSetup passing the Long scenario on.
ValidateShortSetup_AsLong(symbol, h) == validateSetup(symbol, h, "Long")

ValidateShortSetup(symbol, h) == validateSetup(symbol, h, "Short")

(***************************************************************************)
(* float64.  A finite value is sign * (hi * 2^28 + lo) * 2^exp with a      *)
(* 53-bit significand 2^52 <= hi * 2^28 + lo < 2^53; zero has hi = lo = 0. *)
(* Every operation gives the exact result rounded to the nearest value,    *)
(* ties to the even significand, as the hardware does.  The calculators    *)
(* never leave the normal range and never divide by zero, so subnormals,   *)
(* infinities and NaN have no representation; a zero is +0.                *)
(***************************************************************************)
Limb == 2^28

HalfLimb == 2^14

F64Zero == [neg |-> FALSE, exp |-> 0, hi |-> 0, lo |-> 0]

\* The number of bits of n >= 0.
RECURSIVE BitLen(_)
BitLen(n) ==
    IF n < 2 THEN n
    ELSE IF n >= 2^8 THEN 8 + BitLen(n \div 2^8)
    ELSE 1 + BitLen(n \div 2)

\* <<hi, lo>> shifted left by d bits; the result is below 2^53.
ShiftLeft(hi, lo, d) ==
    IF d = 0 THEN <<hi, lo>>
    ELSE IF d < 28 THEN <<hi * 2^d + (lo \div 2^(28 - d)), (lo % 2^(28 - d)) * 2^d>>
    ELSE <<lo * 2^(d - 28), 0>>

\* lo with its lowest bit set when sticky holds.
Jam(lo, sticky) == IF sticky /\ lo % 2 = 0 THEN lo + 1 ELSE lo

\* <<hi, lo>> # 0 shifted right by d bits; the lowest bit of the result is
\* set when a bit shifted out was set (the sticky bit).
ShiftRightJam(hi, lo, d) ==
    IF d = 0 THEN <<hi, lo>>
    ELSE IF d < 28
         THEN <<hi \div 2^d, Jam((lo \div 2^d) + (hi % 2^d) * 2^(28 - d), lo % 2^d # 0)>>
    ELSE IF d < 57
         THEN <<0, Jam(hi \div 2^(d - 28), hi % 2^(d - 28) # 0 \/ lo # 0)>>
    ELSE <<0, 1>>

\* The float64 with the significand <<hi, lo>> + 1 if up holds, else
\* <<hi, lo>>, of 53 bits, and the exponent e.
Incremented(neg, hi, lo, e, up) ==
    IF ~up THEN [neg |-> neg, exp |-> e, hi |-> hi, lo |-> lo]
    ELSE IF lo + 1 < Limb THEN [neg |-> neg, exp |-> e, hi |-> hi, lo |-> lo + 1]
    ELSE IF hi + 1 < 2^25 THEN [neg |-> neg, exp |-> e, hi |-> hi + 1, lo |-> 0]
    ELSE [neg |-> neg, exp |-> e + 1, hi |-> 2^24, lo |-> 0]

\* <<hi, lo>> * 2^e without its d lowest bits, 0 < d < 28, rounded to the
\* nearest, a tie to the even significand.
RoundedOff(neg, hi, lo, e, d) ==
    Incremented(neg, hi \div 2^d, (lo \div 2^d) + (hi % 2^d) * 2^(28 - d), e + d,
                \/ lo % 2^d > 2^(d - 1)
                \/ lo % 2^d = 2^(d - 1) /\ (lo \div 2^d) % 2 = 1)

\* sign * <<hi, lo>> * 2^e, a significand of len bits, as a float64.
Normalized(neg, hi, lo, e, len) ==
    IF len = 0 THEN F64Zero
    ELSE IF len <= 53
         THEN [neg |-> neg, exp |-> e - (53 - len),
               hi |-> ShiftLeft(hi, lo, 53 - len)[1], lo |-> ShiftLeft(hi, lo, 53 - len)[2]]
    ELSE RoundedOff(neg, hi, lo, e, len - 53)

\* The float64 nearest to sign * (hi * 2^28 + lo) * 2^e, ties to even; the
\* lowest bit of lo may be a sticky bit when at least two bits are dropped.
F64Round(neg, hi, lo, e) ==
    Normalized(neg, hi, lo, e, IF hi > 0 THEN 28 + BitLen(hi) ELSE BitLen(lo))

\* float64(n) of a whole number |n| < 2^28
F64Of(n) == F64Round(n < 0, 0, IF n < 0 THEN 0 - n ELSE n, 0)

\* The significand with three more bits: guard, round and sticky.
F64Ext(x) == <<x.hi * 8 + (x.lo \div 2^25), (x.lo % 2^25) * 8>>

\* |x| < |y|
F64MagLT(x, y) ==
    IF y.hi = 0 THEN FALSE
    ELSE IF x.hi = 0 THEN TRUE
    ELSE IF x.exp # y.exp THEN x.exp < y.exp
    ELSE IF x.hi # y.hi THEN x.hi < y.hi
    ELSE x.lo < y.lo

\* x < y
F64LT(x, y) ==
    IF x.neg # y.neg THEN x.neg
    ELSE IF x.neg THEN F64MagLT(y, x) ELSE F64MagLT(x, y)

\* x <= y
F64LE(x, y) == ~F64LT(y, x)

\* The float64 nearest to sign * (a + s * b) * 2^e for the significands a >= b
\* with three more bits each, s = 1 or s = -1.
F64Combined(neg, a, b, s, e) ==
    F64Round(neg, a[1] + s * b[1] + ((a[2] + s * b[2]) \div Limb),
             (a[2] + s * b[2]) % Limb, e)

\* sign * (|x| + s * |y|) for |x| >= |y|, neither zero.
F64AddMag(neg, x, y, s) ==
    F64Combined(neg, F64Ext(x), ShiftRightJam(F64Ext(y)[1], F64Ext(y)[2], x.exp - y.exp),
                s, x.exp - 3)

\* x + y
F64Add(x, y) ==
    IF x.hi = 0 THEN y
    ELSE IF y.hi = 0 THEN x
    ELSE IF x.neg # y.neg /\ ~F64MagLT(x, y) /\ ~F64MagLT(y, x) THEN F64Zero
    ELSE F64AddMag(IF F64MagLT(x, y) THEN y.neg ELSE x.neg,
                   IF F64MagLT(x, y) THEN y ELSE x,
                   IF F64MagLT(x, y) THEN x ELSE y,
                   IF x.neg = y.neg THEN 1 ELSE 0 - 1)

\* -x
F64Neg(x) == IF x.hi = 0 THEN x ELSE [x EXCEPT !.neg = ~x.neg]

\* x - y
F64Sub(x, y) == F64Add(x, F64Neg(y))

\* The four 14-bit digits of <<hi, lo>> < 2^56, the highest first.
Digits(hi, lo) == <<hi \div HalfLimb, hi % HalfLimb, lo \div HalfLimb, lo % HalfLimb>>

\* The digits of x's significand with three more bits.
F64Digits(x) == Digits(F64Ext(x)[1], F64Ext(x)[2])

\* The number with the digits t[1..n], each of either sign, the highest
\* first, with the digits after the first brought into 0..2^14 - 1; the
\* first is negative iff the number is.
RECURSIVE Carried(_)
Carried(t) ==
    IF Len(t) = 1 THEN t
    ELSE Carried(SubSeq(t, 1, Len(t) - 2)
                 \o <<t[Len(t) - 1] + (t[Len(t)] \div HalfLimb)>>)
         \o <<t[Len(t)] % HalfLimb>>

\* The product of the digits a and b, digit by digit: the sum of the
\* products for each of the seven places, the highest first.
Columns(a, b) ==
    <<a[1] * b[1],
      a[1] * b[2] + a[2] * b[1],
      a[1] * b[3] + a[2] * b[2] + a[3] * b[1],
      a[1] * b[4] + a[2] * b[3] + a[3] * b[2] + a[4] * b[1],
      a[2] * b[4] + a[3] * b[3] + a[4] * b[2],
      a[3] * b[4] + a[4] * b[3],
      a[4] * b[4]>>

\* The float64 of the product p of two significands with three more bits
\* each: p[1] holds the highest digits; the upper 56 bits are kept and the
\* lower 56 go to the sticky bit.
F64OfProduct(neg, p, e) ==
    F64Round(neg, p[1], Jam(p[2] * HalfLimb + p[3], p[4] + p[5] + p[6] + p[7] # 0), e)

\* x * y
F64Mul(x, y) ==
    IF x.hi = 0 \/ y.hi = 0 THEN F64Zero
    ELSE F64OfProduct(x.neg # y.neg, Carried(Columns(F64Digits(x), F64Digits(y))),
                      x.exp + y.exp + 50)

\* The quotient digit and the remainder, <<d, r3, r2, r1, r0>>, from an
\* estimate d that is not too small and t = <<top, d3, d2, d1, d0>>, the
\* dividend less d * b: the divisor is added back while t is negative.
RECURSIVE QuotientDigit(_, _, _)
QuotientDigit(t, b, d) ==
    IF t[1] >= 0 THEN <<d, t[2], t[3], t[4], t[5]>>
    ELSE QuotientDigit(Carried(<<t[1], t[2] + b[1], t[3] + b[2], t[4] + b[3], t[5] + b[4]>>),
                       b, d - 1)

\* The dividend r * 2^14 less d * b, for the remainder r = s[2..5].
LessMultiple(s, b, d) ==
    QuotientDigit(Carried(<<s[2], s[3] - d * b[1], s[4] - d * b[2],
                            s[5] - d * b[3], 0 - d * b[4]>>), b, d)

\* One step of the long division in base 2^14: for the remainder
\* r = s[2..5] < b the next digit floor(r * 2^14 / b) and the new remainder.
\* The digit is estimated from the two highest digits of r and the highest
\* of b, which is at least 2^13, so the estimate is the digit or up to two more.
DivStep(s, b) ==
    LessMultiple(s, b, min((s[2] * HalfLimb + s[3]) \div b[1], HalfLimb - 1))

\* The long division of a by b, a < 2 * b: q holds the digits of the quotient
\* so far, s the last digit and the remainder, and n more digits follow.
\* The result is <<hi, lo>> = floor(a * 2^56 / b) with the sticky bit as its
\* lowest bit.
RECURSIVE LongDivision(_, _, _, _)
LongDivision(s, b, q, n) ==
    IF n > 0 THEN LongDivision(DivStep(s, b), b, Append(q, s[1]), n - 1)
    ELSE <<q[1] * Limb + q[2] * HalfLimb + q[3],
           Jam(q[4] * HalfLimb + s[1], s[2] + s[3] + s[4] + s[5] # 0)>>

\* The float64 of the quotient <<hi, lo>> of two significands.
F64OfQuotient(neg, q, e) == F64Round(neg, q[1], q[2], e)

\* The integer digit of a / b and the remainder, for a < 2 * b.
FirstDigit(a, b) ==
    QuotientDigit(Carried(<<0, a[1] - b[1], a[2] - b[2], a[3] - b[3], a[4] - b[4]>>), b, 1)

\* x / y for y # 0: the significands with three more bits each, divided digit
\* by digit to 56 bits after the point; the remainder goes to the sticky bit.
F64Div(x, y) ==
    IF x.hi = 0 THEN F64Zero
    ELSE F64OfQuotient(x.neg # y.neg,
                       LongDivision(FirstDigit(F64Digits(x), F64Digits(y)),
                                    F64Digits(y), <<>>, 4),
                       x.exp - y.exp - 56)

(***************************************************************************)
(* The calculators on a price series, in float64 arithmetic.  A product    *)
(* and the sum it goes into are rounded separately, as on amd64, where the *)
(* compiler does not fuse them.                                            *)
(***************************************************************************)
\* []float64 of a series of whole prices.
RECURSIVE ToFloats(_)
ToFloats(prices) ==
    IF prices = <<>> THEN <<>>
    ELSE Append(ToFloats(SubSeq(prices, 1, Len(prices) - 1)), F64Of(prices[Len(prices)]))

\* sum of values[from..to] (1-based, inclusive), added left to right to 0.0.
RECURSIVE SumRange(_, _, _)
SumRange(values, from, to) ==
    IF to < from THEN F64Zero
    ELSE F64Add(SumRange(values, from, to - 1), values[to])

\* EMACalculator.Calculate: the recurrence from 0-based index i with the value so far.
RECURSIVE EMALoop(_, _, _, _)
EMALoop(prices, multiplier, i, ema) ==
    IF ~(i < Len(prices)) THEN ema
    ELSE EMALoop(prices, multiplier, i + 1,
                 F64Add(F64Mul(prices[i + 1], multiplier),
                        F64Mul(ema, F64Sub(F64Of(1), multiplier))))

\* multiplier := 2.0 / (float64(period) + 1.0)
EMAMultiplier(period) == F64Div(F64Of(2), F64Add(F64Of(period), F64Of(1)))

\* EMACalculator.Calculate with the length check "len(prices) <= period".
EMACalculate_SeedNeedsMore(prices, period) ==
    IF Len(prices) <= period THEN F64Zero
    ELSE EMALoop(prices, EMAMultiplier(period), period,
                 F64Div(SumRange(prices, 1, period), F64Of(period)))

\* EMACalculator.Calculate(prices, period)
EMACalculate(prices, period) ==
    IF Len(prices) < period THEN F64Zero
    ELSE EMALoop(prices, EMAMultiplier(period), period,
                 F64Div(SumRange(prices, 1, period), F64Of(period)))

\* RSICalculator.Calculate: the gain and the loss of one price change.
Gain(change) == IF F64LT(F64Zero, change) THEN change ELSE F64Zero

Loss(change) == IF F64LT(F64Zero, change) THEN F64Zero ELSE F64Neg(change)

\* The size of a change, of a gain as well.
Loss_Absolute(change) == IF F64LT(F64Zero, change) THEN change ELSE F64Neg(change)

\* The gains and the losses of the price changes.
Gains(prices) ==
    [i \in 1..(Len(prices) - 1) |-> Gain(F64Sub(prices[i + 1], prices[i]))]

\* Losses that record the size of every change, gains included.
Losses_Absolute(prices) ==
    [i \in 1..(Len(prices) - 1) |-> Loss_Absolute(F64Sub(prices[i + 1], prices[i]))]

Losses(prices) ==
    [i \in 1..(Len(prices) - 1) |-> Loss(F64Sub(prices[i + 1], prices[i]))]

\* Wilder's smoothing from 0-based index i with the average so far.
RECURSIVE WilderLoop(_, _, _, _)
WilderLoop(values, period, i, avg) ==
    IF ~(i < Len(values)) THEN avg
    ELSE WilderLoop(values, period, i + 1,
                    F64Div(F64Add(F64Mul(avg, F64Of(period - 1)), values[i + 1]),
                           F64Of(period)))

AvgOf(values, period) ==
    WilderLoop(values, period, period,
               F64Div(SumRange(values, 1, period), F64Of(period)))

\* rsi := 100 - (100 / (1 + rs)) of the two averages
RSIOfAverages(avgGain, avgLoss) ==
    IF avgLoss = F64Zero THEN F64Of(100)
    ELSE F64Sub(F64Of(100),
                F64Div(F64Of(100), F64Add(F64Of(1), F64Div(avgGain, avgLoss))))

\* RSICalculator.Calculate(prices, period); there are len(prices) - 1 gains.
RSICalculate(prices, period) ==
    IF Len(prices) < period + 1 THEN F64Zero
    ELSE IF Len(prices) - 1 < period THEN F64Zero
    ELSE RSIOfAverages(AvgOf(Gains(prices), period), AvgOf(Losses(prices), period))

\* StochasticRSICalculator.Calculate: the RSI of every window of rsiPeriod + 1
\* prices, appended from the first window on.
RECURSIVE RSIValuesUpTo(_, _, _)
RSIValuesUpTo(prices, rsiPeriod, n) ==
    IF n = 0 THEN <<>>
    ELSE Append(RSIValuesUpTo(prices, rsiPeriod, n - 1),
                RSICalculate(SubSeq(prices, n, n + rsiPeriod), rsiPeriod))

RSIValues(prices, rsiPeriod) ==
    RSIValuesUpTo(prices, rsiPeriod, max(Len(prices) - rsiPeriod, 0))

F64Max(S) == CHOOSE x \in S : \A y \in S : F64LE(y, x)

F64Min(S) == CHOOSE x \in S : \A y \in S : F64LE(x, y)

\* %K of the window of rsiValues that ends at 0-based index i, without the
\* case of a flat window: 0/0 is NaN, shown here as the value -1.
StochK_NoFlatCase(rsiValues, i, stochKPeriod) ==
    LET periodStart == max(i - stochKPeriod + 1, 0)
        window == {rsiValues[j + 1] : j \in periodStart..i}
        highestRSI == F64Max(window)
        lowestRSI == F64Min(window)
    IN IF highestRSI = lowestRSI THEN F64Of(0 - 1)
       ELSE F64Mul(F64Div(F64Sub(rsiValues[i + 1], lowestRSI),
                          F64Sub(highestRSI, lowestRSI)), F64Of(100))

\* %K of the window of rsiValues that ends at 0-based index i.
StochK(rsiValues, i, stochKPeriod) ==
    LET periodStart == max(i - stochKPeriod + 1, 0)
        window == {rsiValues[j + 1] : j \in periodStart..i}
        highestRSI == F64Max(window)
        lowestRSI == F64Min(window)
    IN IF highestRSI = lowestRSI THEN F64Of(50)
       ELSE F64Mul(F64Div(F64Sub(rsiValues[i + 1], lowestRSI),
                          F64Sub(highestRSI, lowestRSI)), F64Of(100))

\* The %K values, appended from the first full window on.
RECURSIVE StochKValuesUpTo(_, _, _)
StochKValuesUpTo(rsiValues, stochKPeriod, n) ==
    IF n = 0 THEN <<>>
    ELSE Append(StochKValuesUpTo(rsiValues, stochKPeriod, n - 1),
                StochK(rsiValues, n + stochKPeriod - 2, stochKPeriod))

StochKValues(rsiValues, stochKPeriod) ==
    StochKValuesUpTo(rsiValues, stochKPeriod, max(Len(rsiValues) - stochKPeriod + 1, 0))

\* StochasticRSIResult{}
NoStochasticRSIResult == [K |-> F64Zero, D |-> F64Zero, Crossover |-> FALSE]

\* StochasticRSICalculator.Calculate from the %K values on: %D is the mean of
\* the last stochDPeriod values, and the crossover compares it with the last
\* but one.
StochasticOfK(stochKValues, stochDPeriod) ==
    LET n == Len(stochKValues)
    IN
    IF n < stochDPeriod THEN NoStochasticRSIResult
    ELSE LET currentK == stochKValues[n]
             currentD == F64Div(SumRange(stochKValues, n - stochDPeriod + 1, n),
                                F64Of(stochDPeriod))
             prevK == stochKValues[n - 1]
             prevD == IF n >= stochDPeriod + 1
                      THEN F64Div(SumRange(stochKValues, n - stochDPeriod, n - 1),
                                  F64Of(stochDPeriod))
                      ELSE F64Zero
         IN [K |-> currentK, D |-> currentD,
             Crossover |-> IF n >= 2
                           THEN /\ F64LT(prevK, prevD)
                                /\ F64LT(currentD, currentK)
                                /\ F64LT(prevK, F64Of(OversoldLevel))
                           ELSE FALSE]

\* StochasticRSICalculator.Calculate from the RSI values on.
StochasticOfRSI(rsiValues, stochKPeriod, stochDPeriod) ==
    IF Len(rsiValues) < stochKPeriod + stochDPeriod THEN NoStochasticRSIResult
    ELSE StochasticOfK(StochKValues(rsiValues, stochKPeriod), stochDPeriod)

\* StochasticRSICalculator.Calculate(prices, rsiPeriod, stochKPeriod, stochDPeriod)
StochasticRSICalculate(prices, rsiPeriod, stochKPeriod, stochDPeriod) ==
    IF Len(prices) < rsiPeriod + stochKPeriod + stochDPeriod THEN NoStochasticRSIResult
    ELSE StochasticOfRSI(RSIValues(prices, rsiPeriod), stochKPeriod, stochDPeriod)

(***************************************************************************)
(* State.                                                                  *)
(***************************************************************************)
VARIABLES
    \* pattern detection on a candle tail
    candles, emaLevels, patternType, detectPc,
    \* one validateSetup call
    history, scenarioType, validation, validatePc,
    \* the verdicts of the scenarios validated independently on one history
    verdicts,
    \* configuration and the StockProcessor
    cfgWorkerCount, workerCount, requestDelay, stocks,
    \* ProcessStocksConcurrently: main goroutine, channels, WaitGroup
    mainPc, spawned, wg, stockChan, stockChanClosed, resultChan, resultChanClosed,
    panicked,
    \* the enqueuing, closing and monitoring goroutines
    enqPc, enqNext, closerPc, monitorPc,
    \* the workers
    wPc, wStock, wResult,
    \* ProgressTracker, WatchListManager and the wall clock
    tracker, longWatchList, shortWatchList, clock,
    \* collectResults
    summary,
    \* history of the run, per position of the symbol list
    evalLog,
    \* callers of the WatchListManager: its RWMutex, the calling goroutines, the
    \* list under insertion; reads that met an insertion; the lists as added
    mutex, client, inserting, tornRead, expected,
    \* the locals of one GetProgress call of the progress monitor
    snapshot,
    \* one call of an indicator calculator
    series, calcOp, calcOut, calcPc

patternVars == <<candles, emaLevels, patternType, detectPc>>

validateVars == <<history, scenarioType, validation, validatePc, verdicts>>

configVars == <<cfgWorkerCount, workerCount, requestDelay, stocks>>

mainVars == <<mainPc, spawned, summary>>

chanVars == <<stockChan, stockChanClosed, resultChan, resultChanClosed, panicked>>

helperVars == <<enqPc, enqNext, closerPc, monitorPc>>

workerVars == <<wPc, wStock, wResult>>

storeVars == <<longWatchList, shortWatchList, clock>>

\* processed, valid and errors as GetProgress has loaded them so far.
readerVars == <<snapshot>>

pipelineVars ==
    <<configVars, mainVars, wg, chanVars, helperVars, workerVars, tracker,
      storeVars, evalLog, readerVars>>

clientVars == <<mutex, client, inserting, tornRead, expected>>

calcVars == <<series, calcOp, calcOut, calcPc>>

\* What a step of a pipeline run, other than a load of GetProgress, leaves alone.
sideVars == <<patternVars, validateVars, clientVars, calcVars, readerVars>>

vars == <<patternVars, validateVars, pipelineVars, clientVars, calcVars>>

(***************************************************************************)
(* Pattern detection runs: a candle tail and four EMA levels, classified   *)
(* by DetectAllPatterns.                                                   *)
(***************************************************************************)
AllCandles == {Candle(o, h, l, c) : o \in Prices, h \in Prices, l \in Prices, c \in Prices}

\* Confirmation candles that close above every price of a reversal candle.
BreakoutCandles ==
    {Candle(o, h, l, MaxPrice + 1) : o \in Prices, h \in Prices, l \in Prices}

\* Third-to-last candles: only Low and High are read.
PriorCandles == {Candle(1, 2, 1, 2), Candle(0, 3, 0, 3)}

TailEMALevels == {<<1, 1, 1, 1>>, <<2, 1, 1, 1>>, <<2, 2, 1, 2>>}

PatternIdle ==
    /\ candles = <<>>
    /\ emaLevels = <<0, 0, 0, 0>>
    /\ patternType = "NoPattern"
    /\ detectPc = "idle"

ValidateIdle ==
    /\ history = History(0, <<0, 0, 0, 0>>, 0, FALSE, <<>>, <<>>)
    /\ scenarioType = "Long"
    /\ validation = NewValidationResult("")
    /\ validatePc = "idle"
    /\ verdicts = <<>>

NoReturn == [ref |-> "none", obj |-> <<>>]

NewClient == [pc |-> "idle", op |-> "none", calls |-> 0, now |-> 0, symbol |-> "",
              ret |-> NoReturn, expect |-> <<>>, modified |-> FALSE]

ClientIdle ==
    /\ mutex = [writer |-> FALSE, readers |-> 0]
    /\ client = <<>>
    /\ inserting = "none"
    /\ tornRead = FALSE
    /\ expected = [long |-> <<>>, short |-> <<>>]

CalcIdle ==
    /\ series = <<>>
    /\ calcOp = "none"
    /\ calcOut = 0
    /\ calcPc = "idle"

Detect ==
    /\ detectPc = "ready"
    /\ patternType' = DetectAllPatterns(candles, emaLevels)
    /\ detectPc' = "done"
    /\ UNCHANGED <<candles, emaLevels, validateVars, pipelineVars, clientVars, calcVars>>

(***************************************************************************)
(* Validation runs: one history, validated for the Long or the Short       *)
(* scenario.                                                               *)
(***************************************************************************)
EMAUp == <<4, 3, 2, 1>>
EMADown == <<1, 2, 3, 4>>
EMAFlat == <<2, 2, 2, 2>>
EMAMixed == <<3, 2, 2, 1>>

\* Tails over the EMA levels above: support 1 under EMAUp, resistance 4 under EMADown.
TailLong2 == <<Candle(2, 3, 1, 2), Candle(2, 2, 0, 2), Candle(2, 3, 1, 3)>>
TailLongPinbar == <<Candle(2, 3, 0, 2), Candle(2, 2, 0, 2), Candle(2, 3, 1, 3)>>
TailShort2 == <<Candle(3, 4, 2, 3), Candle(3, 5, 3, 3), Candle(3, 4, 2, 2)>>
TailShortPinbar == <<Candle(3, 5, 2, 3), Candle(3, 5, 3, 3), Candle(3, 4, 2, 2)>>
TailFlat == <<Candle(2, 2, 2, 2), Candle(2, 2, 2, 2), Candle(2, 2, 2, 2)>>

\* MACD - Signal signs at the last six prefixes: a run of one sign at the
\* end of the series after bars of another sign.
MACDRuns ==
    {[i \in 1..MaxMarketCount |-> IF i <= n THEN a ELSE b] :
        n \in 0..MaxMarketCount, a \in {-1, 0, 1}, b \in {-1, 0, 1}}

ValidatorHistories ==
    {History(n, e, k, x, m, t) :
        n \in {MinCloses - 1, MinCloses},
        e \in {EMAUp, EMADown, EMAFlat, EMAMixed},
        k \in {20, 50, 80},
        x \in BOOLEAN,
        m \in MACDRuns,
        t \in {TailLong2, TailLongPinbar, TailShort2, TailShortPinbar, TailFlat}}

CallValidateLongSetup ==
    /\ validatePc = "ready"
    /\ scenarioType' = "Long"
    /\ validation' = ValidateLongSetup("A", history)
    /\ validatePc' = "done"
    /\ UNCHANGED <<history, verdicts, patternVars, pipelineVars, clientVars, calcVars>>

CallValidateShortSetup ==
    /\ validatePc = "ready"
    /\ scenarioType' = "Short"
    /\ validation' = ValidateShortSetup("A", history)
    /\ validatePc' = "done"
    /\ UNCHANGED <<history, verdicts, patternVars, pipelineVars, clientVars, calcVars>>

(***************************************************************************)
(* Configuration (settings.go) and the inputs of a pipeline run.           *)
(***************************************************************************)
\* GetOptimalWorkerCount without the lower limit.
GetOptimalWorkerCount_NoFloor(configured) ==
    IF configured > MaxWorkerCount THEN MaxWorkerCount ELSE configured

GetOptimalWorkerCount(configured) ==
    IF configured > MaxWorkerCount THEN MaxWorkerCount
    ELSE IF configured < MinWorkerCount THEN MinWorkerCount
    ELSE configured

\* Configured worker counts of the runs with symbols (WORKER_COUNT).
FullRunWorkerCounts == {1, 2}

Symbols == {"A", "B"}

\* Symbol lists up to MaxStocks long: "A" repeated, or "A" repeated and then "B"
\* (so a symbol may occur more than once in a list).
StockLists ==
    {[i \in 1..n |-> IF i = n /\ last = "B" /\ n > 1 THEN "B" ELSE "A"] :
        n \in 0..MaxStocks, last \in Symbols}

\* What FetchStockData returns for a symbol: an error, or a candle history.
HistoryLong == History(MinCloses, EMAUp, 20, TRUE, [i \in 1..MaxMarketCount |-> 1], TailLong2)
HistoryShort ==
    History(MinCloses, EMADown, 80, TRUE, [i \in 1..MaxMarketCount |-> -1], TailShort2)
HistoryNoSetup ==
    History(MinCloses, EMAUp, 50, FALSE, [i \in 1..MaxMarketCount |-> 1], TailFlat)
HistoryInsufficient ==
    History(MinCloses - 1, <<4, 3, 2, 0>>, 20, TRUE, [i \in 1..MaxMarketCount |-> 1], TailLong2)

FetchHistories == {HistoryLong, HistoryShort, HistoryNoSetup, HistoryInsufficient}

NoError == "nil"
FetchError == "failed to fetch data"

(***************************************************************************)
(* processor.ProcessingResult and processStock.                            *)
(***************************************************************************)
NewProcessingResult(symbol) ==
    [Symbol |-> symbol, Success |-> FALSE, Error |-> NoError, IsValid |-> FALSE,
     IsLongValid |-> FALSE, IsShortValid |-> FALSE, Message |-> "", Processed |-> TRUE]

\* processStock when FetchStockData returns an error.
processStockFetchError(symbol) ==
    [NewProcessingResult(symbol) EXCEPT !.Error = FetchError, !.Success = FALSE]

\* The Short scenario evaluated whatever the Long verdict is.
ShortIsEvaluated_Always(longResult) == TRUE

\* processStock: "if !longResult.IsValid" guards the call of ValidateShortSetup.
ShortIsEvaluated(longResult) == ~longResult.IsValid

\* shortResult of processStock: the zero ValidationResult unless evaluated.
ShortResultOf(symbol, h, longResult) ==
    IF ShortIsEvaluated(longResult) THEN ValidateShortSetup(symbol, h)
    ELSE NewValidationResult("")

\* processStock setting IsValid from the Long verdict alone.
processStockResult_ValidFromLong(symbol, longResult, shortResult) ==
    [NewProcessingResult(symbol) EXCEPT
        !.IsLongValid = longResult.IsValid,
        !.IsShortValid = ~longResult.IsValid /\ shortResult.IsValid,
        !.Success = TRUE,
        !.IsValid = longResult.IsValid,
        !.Message = IF longResult.IsValid THEN longResult.ValidationMessage
                    ELSE IF shortResult.IsValid THEN shortResult.ValidationMessage
                    ELSE "No valid SAPAN setups detected"]

\* processStock after a successful fetch, up to the watch list call.
processStockResult(symbol, longResult, shortResult) ==
    [NewProcessingResult(symbol) EXCEPT
        !.IsLongValid = longResult.IsValid,
        !.IsShortValid = ~longResult.IsValid /\ shortResult.IsValid,
        !.Success = TRUE,
        !.IsValid = longResult.IsValid \/ shortResult.IsValid,
        !.Message = IF longResult.IsValid THEN longResult.ValidationMessage
                    ELSE IF shortResult.IsValid THEN shortResult.ValidationMessage
                    ELSE "No valid SAPAN setups detected"]

\* The watch list processStock adds the symbol to: "long", "short" or "none".
WatchListChoice(longResult, shortResult) ==
    IF longResult.IsValid THEN "long"
    ELSE IF shortResult.IsValid THEN "short"
    ELSE "none"

(***************************************************************************)
(* Per-position record of what the run did with the symbol at a position.  *)
(***************************************************************************)
NewEvalLog ==
    [taken |-> 0, fetches |-> 0, fetched |-> "none", longCalls |-> 0, shortCalls |-> 0,
     longValid |-> FALSE, shortValid |-> FALSE, longMessage |-> "", shortMessage |-> "",
     gateFlags |-> 0, addLong |-> 0, addShort |-> 0, sent |-> <<>>, updates |-> 0]

\* Number of gate flags set in a ValidationResult.
GateFlagCount(r) ==
    (IF r.EMATrendValid THEN 1 ELSE 0) + (IF r.StochasticValid THEN 1 ELSE 0)
    + (IF r.MACDValid THEN 1 ELSE 0) + (IF r.PatternValid THEN 1 ELSE 0)

Workers == 1..MaxWorkerCount

Positions == 1..Len(stocks)

\* stockChan := make(chan models.Stock, len(stocks))
StockChanCapacity == Len(stocks)

\* A result channel sized to the worker pool instead of the symbol list.
ResultChanCapacity_PerWorker == workerCount

\* resultChan := make(chan ProcessingResult, len(stocks))
ResultChanCapacity == Len(stocks)

\* The named results of GetProgress before the call's loads.
NoSnapshot == [processed |-> 0, valid |-> 0, errors |-> 0]

PipelineInit ==
    /\ mainPc = "start"
    /\ spawned = 0
    /\ summary = [successCount |-> 0, errorCount |-> 0, validCount |-> 0,
                  longCount |-> 0, shortCount |-> 0, received |-> 0]
    /\ wg = 0
    /\ stockChan = <<>>
    /\ stockChanClosed = FALSE
    /\ resultChan = <<>>
    /\ resultChanClosed = FALSE
    /\ panicked = FALSE
    /\ enqPc = "idle"
    /\ enqNext = 1
    /\ closerPc = "idle"
    /\ monitorPc = "idle"
    /\ wPc = [w \in Workers |-> "idle"]
    /\ wStock = [w \in Workers |-> 0]
    /\ wResult = [w \in Workers |-> NewProcessingResult("")]
    /\ tracker = [total |-> 0, processed |-> 0, valid |-> 0, errors |-> 0]
    /\ longWatchList = <<>>
    /\ shortWatchList = <<>>
    /\ clock = 0
    /\ evalLog = [i \in Positions |-> NewEvalLog]
    /\ snapshot = NoSnapshot

(***************************************************************************)
(* ProcessStocksConcurrently: the main goroutine.                          *)
(***************************************************************************)
\* make(chan, len(stocks)) twice, NewProgressTracker(len(stocks)), go monitorProgress.
Start ==
    /\ ~panicked
    /\ mainPc = "start"
    /\ tracker' = [total |-> Len(stocks), processed |-> 0, valid |-> 0, errors |-> 0]
    /\ monitorPc' = "running"
    /\ mainPc' = "spawn"
    /\ UNCHANGED <<sideVars, configVars, spawned, summary, wg, chanVars,
                   enqPc, enqNext, closerPc, workerVars, storeVars, evalLog>>

\* The worker loop without wg.Add(1).
SpawnWorker_NoAdd ==
    /\ ~panicked
    /\ mainPc = "spawn"
    /\ spawned < workerCount
    /\ wPc' = [wPc EXCEPT ![spawned + 1] = "recv"]
    /\ spawned' = spawned + 1
    /\ UNCHANGED <<sideVars, configVars, mainPc, summary, wg, chanVars,
                   helperVars, wStock, wResult, tracker, storeVars, evalLog>>

\* for i := 0; i < p.workerCount; i++ { wg.Add(1); go p.worker(...) }
SpawnWorker ==
    /\ ~panicked
    /\ mainPc = "spawn"
    /\ spawned < workerCount
    /\ wg' = wg + 1
    /\ wPc' = [wPc EXCEPT ![spawned + 1] = "recv"]
    /\ spawned' = spawned + 1
    /\ UNCHANGED <<sideVars, configVars, mainPc, summary, chanVars,
                   helperVars, wStock, wResult, tracker, storeVars, evalLog>>

\* The loop ends; go func() { defer close(stockChan); ... }()
GoEnqueue ==
    /\ ~panicked
    /\ mainPc = "spawn"
    /\ ~(spawned < workerCount)
    /\ enqPc' = "send"
    /\ mainPc' = "goCloser"
    /\ UNCHANGED <<sideVars, configVars, spawned, summary, wg, chanVars,
                   enqNext, closerPc, monitorPc, workerVars, tracker,
                   storeVars, evalLog>>

\* go func() { wg.Wait(); close(resultChan) }()
GoCloser ==
    /\ ~panicked
    /\ mainPc = "goCloser"
    /\ closerPc' = "wait"
    /\ mainPc' = "collect"
    /\ UNCHANGED <<sideVars, configVars, spawned, summary, wg, chanVars,
                   enqPc, enqNext, monitorPc, workerVars, tracker,
                   storeVars, evalLog>>

\* collectResults whose valid counter skips the results valid for Short.
Tally_ValidSkipsShort(s, result) ==
    [s EXCEPT
        !.received = @ + 1,
        !.successCount = IF result.Success THEN @ + 1 ELSE @,
        !.validCount = IF result.Success /\ result.IsValid /\ ~result.IsShortValid
                       THEN @ + 1 ELSE @,
        !.longCount = IF result.Success /\ result.IsLongValid THEN @ + 1 ELSE @,
        !.shortCount = IF result.Success /\ result.IsShortValid THEN @ + 1 ELSE @,
        !.errorCount = IF result.Success THEN @ ELSE @ + 1]

\* collectResults: the tallies after one more result.
Tally(s, result) ==
    [s EXCEPT
        !.received = @ + 1,
        !.successCount = IF result.Success THEN @ + 1 ELSE @,
        !.validCount = IF result.Success /\ result.IsValid THEN @ + 1 ELSE @,
        !.longCount = IF result.Success /\ result.IsLongValid THEN @ + 1 ELSE @,
        !.shortCount = IF result.Success /\ result.IsShortValid THEN @ + 1 ELSE @,
        !.errorCount = IF result.Success THEN @ ELSE @ + 1]

\* collectResults: one iteration of "for result := range resultChan".
CollectResult ==
    /\ ~panicked
    /\ mainPc = "collect"
    /\ resultChan # <<>>
    /\ summary' = Tally(summary, Head(resultChan))
    /\ resultChan' = Tail(resultChan)
    /\ UNCHANGED <<sideVars, configVars, mainPc, spawned, wg, stockChan,
                   stockChanClosed, resultChanClosed, panicked, helperVars, workerVars,
                   tracker, storeVars, evalLog>>

\* collectResults: the range loop ends on the closed, drained channel; the
\* summary is printed and ProcessStocksConcurrently returns.
CollectDone ==
    /\ ~panicked
    /\ mainPc = "collect"
    /\ resultChan = <<>>
    /\ resultChanClosed
    /\ mainPc' = "returned"
    /\ UNCHANGED <<sideVars, configVars, spawned, summary, wg, chanVars,
                   helperVars, workerVars, tracker, storeVars, evalLog>>

(***************************************************************************)
(* The enqueuing goroutine, the closing goroutine and the progress monitor.*)
(***************************************************************************)
\* stockChan <- stock (the channel's capacity is len(stocks)).
EnqueueStock ==
    /\ ~panicked
    /\ enqPc = "send"
    /\ enqNext <= Len(stocks)
    /\ Len(stockChan) < StockChanCapacity
    /\ stockChan' = Append(stockChan, enqNext)
    /\ enqNext' = enqNext + 1
    /\ UNCHANGED <<sideVars, configVars, mainVars, wg, stockChanClosed,
                   resultChan, resultChanClosed, panicked, enqPc, closerPc, monitorPc, workerVars, tracker, storeVars, evalLog>>

\* The enqueuing goroutine ending without close(stockChan).
CloseStockChan_NoClose ==
    /\ ~panicked
    /\ enqPc = "send"
    /\ enqNext > Len(stocks)
    /\ enqPc' = "done"
    /\ UNCHANGED <<sideVars, configVars, mainVars, wg, stockChan,
                   stockChanClosed, resultChan, resultChanClosed, panicked, enqNext,
                   closerPc, monitorPc, workerVars, tracker, storeVars, evalLog>>

\* defer close(stockChan)
CloseStockChan ==
    /\ ~panicked
    /\ enqPc = "send"
    /\ enqNext > Len(stocks)
    /\ stockChanClosed' = TRUE
    /\ enqPc' = "done"
    /\ UNCHANGED <<sideVars, configVars, mainVars, wg, stockChan,
                   resultChan, resultChanClosed, panicked, enqNext, closerPc, monitorPc, workerVars, tracker, storeVars, evalLog>>

\* The closing goroutine going on to close(resultChan) without waiting.
WaitForWorkers_NoWait ==
    /\ ~panicked
    /\ closerPc = "wait"
    /\ closerPc' = "close"
    /\ UNCHANGED <<sideVars, configVars, mainVars, wg, chanVars, enqPc,
                   enqNext, monitorPc, workerVars, tracker, storeVars,
                   evalLog>>

\* wg.Wait() returns when the counter is zero.
WaitForWorkers ==
    /\ ~panicked
    /\ closerPc = "wait"
    /\ wg = 0
    /\ closerPc' = "close"
    /\ UNCHANGED <<sideVars, configVars, mainVars, wg, chanVars, enqPc,
                   enqNext, monitorPc, workerVars, tracker, storeVars,
                   evalLog>>

\* close(resultChan)
CloseResultChan ==
    /\ ~panicked
    /\ closerPc = "close"
    /\ resultChanClosed' = TRUE
    /\ closerPc' = "done"
    /\ UNCHANGED <<sideVars, configVars, mainVars, wg, stockChan,
                   stockChanClosed, resultChan, panicked, enqPc, enqNext, monitorPc, workerVars, tracker, storeVars, evalLog>>

\* ProgressTracker.IsComplete
IsComplete == tracker.processed >= tracker.total

\* A reporter that returns after its first tick, complete or not.
MonitorTick_StopsAtOnce ==
    /\ ~panicked
    /\ monitorPc = "running"
    /\ monitorPc' = "stopped"
    /\ UNCHANGED <<sideVars, configVars, mainVars, wg, chanVars, enqPc,
                   enqNext, closerPc, workerVars, tracker, storeVars, evalLog>>

\* monitorProgress: one tick: PrintProgress, then return if IsComplete.
MonitorTick ==
    /\ ~panicked
    /\ monitorPc = "running"
    /\ monitorPc' = IF IsComplete THEN "stopped" ELSE "running"
    /\ UNCHANGED <<sideVars, configVars, mainVars, wg, chanVars, enqPc,
                   enqNext, closerPc, workerVars, tracker, storeVars, evalLog>>

(***************************************************************************)
(* WatchListManager: two maps from timestamp to symbol.                    *)
(***************************************************************************)
\* m[timestamp] = symbol
MapPut(m, timestamp, symbol) ==
    [t \in DOMAIN m \cup {timestamp} |-> IF t = timestamp THEN symbol ELSE m[t]]

GetLongCount == Cardinality(DOMAIN longWatchList)

GetShortCount == Cardinality(DOMAIN shortWatchList)

\* time.Now().UTC(): the wall clock has not advanced since the last reading
\* (at its resolution), or it has.
TimeNow == {clock, clock + 1}

(***************************************************************************)
(* StockProcessor.worker                                                   *)
(***************************************************************************)
\* A receive that leaves the stock in the channel for the next receiver.
WorkerReceive_NoDequeue(w) ==
    /\ ~panicked
    /\ wPc[w] = "recv"
    /\ stockChan # <<>>
    /\ wStock' = [wStock EXCEPT ![w] = Head(stockChan)]
    /\ wPc' = [wPc EXCEPT ![w] = "fetch"]
    /\ evalLog' = [evalLog EXCEPT ![Head(stockChan)].taken = @ + 1]
    /\ UNCHANGED <<sideVars, configVars, mainVars, wg, chanVars, helperVars, wResult,
                   tracker, storeVars>>

\* "for stock := range stockChan": a stock is received; processStock starts
\* and the fetch request is in flight.
WorkerReceive(w) ==
    /\ ~panicked
    /\ wPc[w] = "recv"
    /\ stockChan # <<>>
    /\ wStock' = [wStock EXCEPT ![w] = Head(stockChan)]
    /\ stockChan' = Tail(stockChan)
    /\ wPc' = [wPc EXCEPT ![w] = "fetch"]
    /\ evalLog' = [evalLog EXCEPT ![Head(stockChan)].taken = @ + 1]
    /\ UNCHANGED <<sideVars, configVars, mainVars, wg, stockChanClosed,
                   resultChan, resultChanClosed, panicked, helperVars, wResult, tracker,
                   storeVars>>

\* The range loop ends on the closed, drained channel; defer wg.Done().
WorkerExit(w) ==
    /\ ~panicked
    /\ wPc[w] = "recv"
    /\ stockChan = <<>>
    /\ stockChanClosed
    /\ wg' = wg - 1
    /\ wPc' = [wPc EXCEPT ![w] = "done"]
    /\ UNCHANGED <<sideVars, configVars, mainVars, chanVars, helperVars,
                   wStock, wResult, tracker, storeVars, evalLog>>

\* A fetch error that ends the worker (a return out of the loop) without a result.
ProcessStockFetchFailed_Abort(w) ==
    /\ ~panicked
    /\ wPc[w] = "fetch"
    /\ wPc' = [wPc EXCEPT ![w] = "done"]
    /\ wg' = wg - 1
    /\ evalLog' = [evalLog EXCEPT ![wStock[w]].fetches = @ + 1,
                                  ![wStock[w]].fetched = "error"]
    /\ UNCHANGED <<sideVars, configVars, mainVars, chanVars,
                   helperVars, wStock, wResult, tracker, storeVars>>

\* processStock: FetchStockData returns an error; the result is returned at once.
ProcessStockFetchFailed(w) ==
    /\ ~panicked
    /\ wPc[w] = "fetch"
    /\ wResult' = [wResult EXCEPT ![w] = processStockFetchError(stocks[wStock[w]])]
    /\ wPc' = [wPc EXCEPT ![w] = "send"]
    /\ evalLog' = [evalLog EXCEPT ![wStock[w]].fetches = @ + 1,
                                  ![wStock[w]].fetched = "error"]
    /\ UNCHANGED <<sideVars, configVars, mainVars, wg, chanVars,
                   helperVars, wStock, tracker, storeVars>>

\* processStock: FetchStockData returns candles; the Long scenario is validated,
\* then the Short one if Long is not valid, and the result fields are set.
ProcessStockValidate(w) ==
    /\ ~panicked
    /\ wPc[w] = "fetch"
    /\ \E h \in FetchHistories :
        LET symbol == stocks[wStock[w]]
            longResult == ValidateLongSetup(symbol, h)
            shortResult == ShortResultOf(symbol, h, longResult)
            choice == WatchListChoice(longResult, shortResult)
        IN /\ wResult' = [wResult EXCEPT ![w] =
                              processStockResult(symbol, longResult, shortResult)]
           /\ wPc' = [wPc EXCEPT ![w] =
                          IF choice = "long" THEN "addLong"
                          ELSE IF choice = "short" THEN "addShort"
                          ELSE "send"]
           /\ evalLog' = [evalLog EXCEPT
                  ![wStock[w]].fetches = @ + 1,
                  ![wStock[w]].fetched = IF h.closesLen < MinCloses THEN "short history"
                                         ELSE "history",
                  ![wStock[w]].longCalls = @ + 1,
                  ![wStock[w]].shortCalls = IF ShortIsEvaluated(longResult) THEN @ + 1 ELSE @,
                  ![wStock[w]].longValid = longResult.IsValid,
                  ![wStock[w]].shortValid = shortResult.IsValid,
                  ![wStock[w]].longMessage = longResult.ValidationMessage,
                  ![wStock[w]].shortMessage = shortResult.ValidationMessage,
                  ![wStock[w]].gateFlags =
                      GateFlagCount(longResult) + GateFlagCount(shortResult)]
    /\ UNCHANGED <<sideVars, configVars, mainVars, wg, chanVars,
                   helperVars, wStock, tracker, storeVars>>

\* processStock: p.watchListManager.AddToLongWatchList(stock.Symbol)
AddToLongWatchList(w) ==
    /\ ~panicked
    /\ wPc[w] = "addLong"
    /\ \E now \in TimeNow :
        /\ longWatchList' = MapPut(longWatchList, now, stocks[wStock[w]])
        /\ clock' = now
    /\ wPc' = [wPc EXCEPT ![w] = "send"]
    /\ evalLog' = [evalLog EXCEPT ![wStock[w]].addLong = @ + 1]
    /\ UNCHANGED <<sideVars, configVars, mainVars, wg, chanVars,
                   helperVars, wStock, wResult, tracker, shortWatchList>>

\* processStock: p.watchListManager.AddToShortWatchList(stock.Symbol)
AddToShortWatchList(w) ==
    /\ ~panicked
    /\ wPc[w] = "addShort"
    /\ \E now \in TimeNow :
        /\ shortWatchList' = MapPut(shortWatchList, now, stocks[wStock[w]])
        /\ clock' = now
    /\ wPc' = [wPc EXCEPT ![w] = "send"]
    /\ evalLog' = [evalLog EXCEPT ![wStock[w]].addShort = @ + 1]
    /\ UNCHANGED <<sideVars, configVars, mainVars, wg, chanVars,
                   helperVars, wStock, wResult, tracker, longWatchList>>

\* A worker that calls UpdateProgress before it emits the result.
SendResult_UpdateFirst(w) ==
    /\ ~panicked
    /\ wPc[w] = "send"
    /\ tracker' = [tracker EXCEPT !.processed = @ + 1]
    /\ wPc' = [wPc EXCEPT ![w] = "sendLate"]
    /\ UNCHANGED <<sideVars, configVars, mainVars, wg, chanVars, helperVars, wStock,
                   wResult, storeVars, evalLog>>

\* resultChan <- result (capacity len(stocks)); a send on a closed channel panics.
SendResult(w) ==
    /\ ~panicked
    /\ wPc[w] = "send"
    /\ resultChanClosed \/ Len(resultChan) < ResultChanCapacity
    /\ IF resultChanClosed
       THEN /\ panicked' = TRUE
            /\ UNCHANGED <<resultChan, evalLog>>
       ELSE /\ resultChan' = Append(resultChan, wResult[w])
            /\ evalLog' = [evalLog EXCEPT ![wStock[w]].sent = Append(@, wResult[w])]
            /\ UNCHANGED panicked
    /\ wPc' = [wPc EXCEPT ![w] = "update"]
    /\ UNCHANGED <<sideVars, configVars, mainVars, wg, stockChan,
                   stockChanClosed, resultChanClosed, helperVars, wStock, wResult,
                   tracker, storeVars>>

\* A worker that pulls the next symbol right after UpdateProgress, whatever
\* the delay.
AfterUpdate_NoSleep == "recv"

\* Where the worker goes after UpdateProgress: time.Sleep if requestDelay > 0.
AfterUpdate == IF requestDelay > 0 THEN "sleep" ELSE "recv"

\* The loop variables stock and result go out of scope when an iteration ends.
EndIteration(w) ==
    /\ wStock' = [wStock EXCEPT ![w] = 0]
    /\ wResult' = [wResult EXCEPT ![w] = NewProcessingResult("")]

\* UpdateProgress with a plain p.processed++: the increment is lost when another
\* worker is at its own increment.
UpdateProcessed_Racy(w) ==
    /\ ~panicked
    /\ wPc[w] = "update"
    /\ tracker' = IF \E v \in Workers \ {w} : wPc[v] = "update"
                  THEN tracker
                  ELSE [tracker EXCEPT !.processed = @ + 1]
    /\ wPc' = [wPc EXCEPT ![w] =
                   IF wResult[w].Success /\ ~wResult[w].IsValid THEN AfterUpdate
                   ELSE "updateFlag"]
    /\ IF wResult[w].Success /\ ~wResult[w].IsValid
       THEN EndIteration(w)
       ELSE UNCHANGED <<wStock, wResult>>
    /\ evalLog' = [evalLog EXCEPT ![wStock[w]].updates = @ + 1]
    /\ UNCHANGED <<sideVars, configVars, mainVars, wg, chanVars,
                   helperVars, storeVars>>

\* UpdateProgress: atomic.AddInt32(&p.processed, 1)
UpdateProcessed(w) ==
    /\ ~panicked
    /\ wPc[w] = "update"
    /\ tracker' = [tracker EXCEPT !.processed = @ + 1]
    /\ wPc' = [wPc EXCEPT ![w] =
                   IF wResult[w].Success /\ ~wResult[w].IsValid THEN AfterUpdate
                   ELSE "updateFlag"]
    /\ IF wResult[w].Success /\ ~wResult[w].IsValid
       THEN EndIteration(w)
       ELSE UNCHANGED <<wStock, wResult>>
    /\ evalLog' = [evalLog EXCEPT ![wStock[w]].updates = @ + 1]
    /\ UNCHANGED <<sideVars, configVars, mainVars, wg, chanVars,
                   helperVars, storeVars>>

\* UpdateProgress: atomic.AddInt32 of valid (success and valid) or of errors.
UpdateFlag(w) ==
    /\ ~panicked
    /\ wPc[w] = "updateFlag"
    /\ tracker' = IF wResult[w].Success
                  THEN [tracker EXCEPT !.valid = @ + 1]
                  ELSE [tracker EXCEPT !.errors = @ + 1]
    /\ wPc' = [wPc EXCEPT ![w] = AfterUpdate]
    /\ EndIteration(w)
    /\ UNCHANGED <<sideVars, configVars, mainVars, wg, chanVars,
                   helperVars, storeVars, evalLog>>

\* time.Sleep(p.requestDelay) ends.
SleepDone(w) ==
    /\ ~panicked
    /\ wPc[w] = "sleep"
    /\ wPc' = [wPc EXCEPT ![w] = "recv"]
    /\ UNCHANGED <<sideVars, configVars, mainVars, wg, chanVars,
                   helperVars, wStock, wResult, tracker, storeVars, evalLog>>

(***************************************************************************)
(* Specifications.                                                         *)
(***************************************************************************)
\* A pipeline run as main() sets it up: the worker count is
\* cfg.GetOptimalWorkerCount(), the delay cfg.RequestDelay (seconds).
Init ==
    /\ PatternIdle
    /\ ValidateIdle
    /\ ClientIdle
    /\ CalcIdle
    /\ cfgWorkerCount \in FullRunWorkerCounts
    /\ workerCount = GetOptimalWorkerCount(cfgWorkerCount)
    /\ requestDelay \in {0, 2}
    /\ stocks \in StockLists
    /\ PipelineInit

Next ==
    \/ Start
    \/ SpawnWorker
    \/ GoEnqueue
    \/ GoCloser
    \/ CollectResult
    \/ CollectDone
    \/ EnqueueStock
    \/ CloseStockChan
    \/ WaitForWorkers
    \/ CloseResultChan
    \/ MonitorTick
    \/ \E w \in Workers : WorkerReceive(w)
    \/ \E w \in Workers : WorkerExit(w)
    \/ \E w \in Workers : ProcessStockFetchFailed(w)
    \/ \E w \in Workers : ProcessStockValidate(w)
    \/ \E w \in Workers : AddToLongWatchList(w)
    \/ \E w \in Workers : AddToShortWatchList(w)
    \/ \E w \in Workers : SendResult(w)
    \/ \E w \in Workers : UpdateProcessed(w)
    \/ \E w \in Workers : UpdateFlag(w)
    \/ \E w \in Workers : SleepDone(w)

Spec == Init /\ [][Next]_vars

\* Fairness of the scheduler: every goroutine that can take a step eventually
\* takes one.
Fairness ==
    /\ WF_vars(Start \/ SpawnWorker \/ GoEnqueue \/ GoCloser \/ CollectResult \/ CollectDone)
    /\ WF_vars(EnqueueStock \/ CloseStockChan)
    /\ WF_vars(WaitForWorkers \/ CloseResultChan)
    /\ WF_vars(MonitorTick)
    /\ \A w \in Workers :
          WF_vars(WorkerReceive(w) \/ WorkerExit(w) \/ ProcessStockFetchFailed(w)
                  \/ ProcessStockValidate(w) \/ AddToLongWatchList(w)
                  \/ AddToShortWatchList(w) \/ SendResult(w) \/ UpdateProcessed(w)
                  \/ UpdateFlag(w) \/ SleepDone(w))

LiveSpec == Spec /\ Fairness

\* Runs on an empty symbol list with any configured worker count: the steps of
\* a run that an empty list enables.
InitWorkers ==
    /\ PatternIdle
    /\ ValidateIdle
    /\ ClientIdle
    /\ CalcIdle
    /\ cfgWorkerCount \in (0 - 1)..MaxCfgRange
    /\ workerCount = GetOptimalWorkerCount(cfgWorkerCount)
    /\ requestDelay \in {0, 2}
    /\ stocks = <<>>
    /\ PipelineInit

NextWorkers ==
    \/ Start
    \/ SpawnWorker
    \/ GoEnqueue
    \/ GoCloser
    \/ CollectDone
    \/ CloseStockChan
    \/ WaitForWorkers
    \/ CloseResultChan
    \/ MonitorTick
    \/ \E w \in Workers : WorkerExit(w)

SpecWorkers == InitWorkers /\ [][NextWorkers]_vars

(***************************************************************************)
(* A pipeline run with the progress monitor's GetProgress call taken load  *)
(* by load: PrintProgress loads processed, valid and errors one after the  *)
(* other and prints them; IsComplete loads processed again.                *)
(***************************************************************************)
ReaderStep(from, to, loaded) ==
    /\ ~panicked
    /\ monitorPc = from
    /\ monitorPc' = to
    /\ snapshot' = loaded
    /\ UNCHANGED <<patternVars, validateVars, clientVars, calcVars, configVars,
                   mainVars, wg, chanVars, enqPc, enqNext, closerPc, workerVars,
                   tracker, storeVars, evalLog>>

\* A tick: processed = atomic.LoadInt32(&p.processed)
GetProgressLoadProcessed ==
    ReaderStep("running", "loadValid", [snapshot EXCEPT !.processed = tracker.processed])

\* valid = atomic.LoadInt32(&p.valid)
GetProgressLoadValid ==
    ReaderStep("loadValid", "loadErrors", [snapshot EXCEPT !.valid = tracker.valid])

\* errors = atomic.LoadInt32(&p.errors); GetProgress returns the three values
\* and PrintProgress prints them.
GetProgressLoadErrors ==
    ReaderStep("loadErrors", "printed", [snapshot EXCEPT !.errors = tracker.errors])

\* PrintProgress returns; monitorProgress returns if IsComplete.
MonitorIsComplete ==
    ReaderStep("printed", IF IsComplete THEN "stopped" ELSE "running", NoSnapshot)

\* Runs without a delay between items.
InitReader ==
    /\ PatternIdle
    /\ ValidateIdle
    /\ ClientIdle
    /\ CalcIdle
    /\ cfgWorkerCount \in FullRunWorkerCounts
    /\ workerCount = GetOptimalWorkerCount(cfgWorkerCount)
    /\ requestDelay = 0
    /\ stocks \in StockLists
    /\ PipelineInit

NextReader ==
    \/ Start
    \/ SpawnWorker
    \/ GoEnqueue
    \/ GoCloser
    \/ CollectResult
    \/ CollectDone
    \/ EnqueueStock
    \/ CloseStockChan
    \/ WaitForWorkers
    \/ CloseResultChan
    \/ GetProgressLoadProcessed
    \/ GetProgressLoadValid
    \/ GetProgressLoadErrors
    \/ MonitorIsComplete
    \/ \E w \in Workers : WorkerReceive(w)
    \/ \E w \in Workers : WorkerExit(w)
    \/ \E w \in Workers : ProcessStockFetchFailed(w)
    \/ \E w \in Workers : ProcessStockValidate(w)
    \/ \E w \in Workers : AddToLongWatchList(w)
    \/ \E w \in Workers : AddToShortWatchList(w)
    \/ \E w \in Workers : SendResult(w)
    \/ \E w \in Workers : UpdateProcessed(w)
    \/ \E w \in Workers : UpdateFlag(w)

SpecReader == InitReader /\ [][NextReader]_vars

\* The pipeline variables while only a detector or a validator runs.
PipelineIdle ==
    /\ cfgWorkerCount = 1
    /\ workerCount = 1
    /\ requestDelay = 0
    /\ stocks = <<>>
    /\ PipelineInit
    /\ mainPc = "start"

InitPattern ==
    /\ candles \in {<<p, r, c>> : p \in PriorCandles, r \in AllCandles,
                                       c \in AllCandles \cup BreakoutCandles}
                   \cup {<<>>, SubSeq(TailLong2, 2, 3), SubSeq(TailShort2, 2, 3)}
    /\ emaLevels \in TailEMALevels
    /\ patternType = "NoPattern"
    /\ detectPc = "ready"
    /\ ValidateIdle
    /\ PipelineIdle
    /\ ClientIdle
    /\ CalcIdle

NextPattern == Detect

SpecPattern == InitPattern /\ [][NextPattern]_vars

InitValidate ==
    /\ PatternIdle
    /\ history \in ValidatorHistories
    /\ scenarioType = "Long"
    /\ validation = NewValidationResult("")
    /\ validatePc = "ready"
    /\ verdicts = <<>>
    /\ PipelineIdle
    /\ ClientIdle
    /\ CalcIdle

NextValidate ==
    \/ CallValidateLongSetup
    \/ CallValidateShortSetup

SpecValidate == InitValidate /\ [][NextValidate]_vars

(***************************************************************************)
(* Both scenarios validated on one history, each call on its own (without  *)
(* processStock's skip of the Short call).                                 *)
(***************************************************************************)
\* The four EMA values of a history, in any order of levels.
EMALevelTuples == [1..4 -> 1..(MaxLevel + 2)]

\* MACD - Signal signs at the last six prefixes, one sign throughout.
MACDSteady == {[i \in 1..MaxMarketCount |-> a] : a \in {0 - 1, 0, 1}}

IndependentHistories ==
    {History(MinCloses, e, k, x, m, t) :
        e \in EMALevelTuples,
        k \in {20, 50, 80},
        x \in BOOLEAN,
        m \in MACDSteady,
        t \in {TailLong2, TailLongPinbar, TailShort2, TailShortPinbar, TailFlat}}

\* ValidateLongSetup or ValidateShortSetup called on the history.
CallIndependently(scenario) ==
    /\ validatePc = "both"
    /\ scenario \notin DOMAIN verdicts
    /\ verdicts' = [s \in DOMAIN verdicts \cup {scenario} |->
                        IF s \in DOMAIN verdicts THEN verdicts[s]
                        ELSE IF scenario = "Long" THEN ValidateLongSetup("A", history)
                        ELSE ValidateShortSetup("A", history)]
    /\ UNCHANGED <<history, scenarioType, validation, validatePc, patternVars,
                   pipelineVars, clientVars, calcVars>>

CallLongIndependently == CallIndependently("Long")

CallShortIndependently == CallIndependently("Short")

InitIndependent ==
    /\ PatternIdle
    /\ history \in IndependentHistories
    /\ scenarioType = "Long"
    /\ validation = NewValidationResult("")
    /\ validatePc = "both"
    /\ verdicts = <<>>
    /\ PipelineIdle
    /\ ClientIdle
    /\ CalcIdle

NextIndependent ==
    \/ CallLongIndependently
    \/ CallShortIndependently

SpecIndependent == InitIndependent /\ [][NextIndependent]_vars

(***************************************************************************)
(* WatchListManager under concurrent callers: every method takes the       *)
(* RWMutex, exclusively in the adds and shared in the reads.               *)
(***************************************************************************)
Clients == 1..MaxClients

AddOps == {"AddToLongWatchList", "AddToShortWatchList"}

GetOps == {"GetLongWatchList", "GetShortWatchList"}

ReadOps == GetOps \cup {"GetCount", "GetLongCount", "GetShortCount", "PrintWatchList"}

\* The maps a method touches.
ListsOf(op) ==
    IF op \in {"AddToLongWatchList", "GetLongWatchList", "GetLongCount"} THEN {"long"}
    ELSE IF op \in {"AddToShortWatchList", "GetShortWatchList", "GetShortCount"}
         THEN {"short"}
    ELSE {"long", "short"}

\* The map a returned reference designates.
Deref(r) ==
    IF r.ref = "long" THEN longWatchList
    ELSE IF r.ref = "short" THEN shortWatchList
    ELSE r.obj

RECURSIVE CallsUpTo(_)
CallsUpTo(t) == IF t = 0 THEN 0 ELSE client[t].calls + CallsUpTo(t - 1)

\* The calls made so far, by all callers.
CallsMade == CallsUpTo(MaxClients)

\* A goroutine calls a method of the manager.
StoreCall(t) ==
    /\ client[t].pc = "idle"
    /\ CallsMade < MaxCalls
    /\ \E op \in AddOps \cup ReadOps, symbol \in Symbols :
          client' = [client EXCEPT ![t].pc = "lock", ![t].op = op,
                                   ![t].calls = @ + 1,
                                   ![t].symbol = IF op \in AddOps THEN symbol ELSE ""]
    /\ UNCHANGED <<patternVars, validateVars, pipelineVars, calcVars, mutex, inserting,
                   tornRead, expected>>

\* An add that takes the lock shared: w.mutex.RLock() in place of Lock().
MutexLock_Shared(t) ==
    /\ client[t].pc = "lock"
    /\ client[t].op \in AddOps
    /\ ~mutex.writer
    /\ mutex' = [mutex EXCEPT !.readers = @ + 1]
    /\ client' = [client EXCEPT ![t].pc = "held"]
    /\ UNCHANGED <<patternVars, validateVars, pipelineVars, calcVars, inserting,
                   tornRead, expected>>

\* w.mutex.Lock(): waits until no goroutine holds the mutex.
MutexLock(t) ==
    /\ client[t].pc = "lock"
    /\ client[t].op \in AddOps
    /\ ~mutex.writer
    /\ mutex.readers = 0
    /\ mutex' = [mutex EXCEPT !.writer = TRUE]
    /\ client' = [client EXCEPT ![t].pc = "held"]
    /\ UNCHANGED <<patternVars, validateVars, pipelineVars, calcVars, inserting,
                   tornRead, expected>>

\* w.mutex.RLock(): waits until no writer holds the mutex.
MutexRLock(t) ==
    /\ client[t].pc = "lock"
    /\ client[t].op \in ReadOps
    /\ ~mutex.writer
    /\ mutex' = [mutex EXCEPT !.readers = @ + 1]
    /\ client' = [client EXCEPT ![t].pc = "held"]
    /\ UNCHANGED <<patternVars, validateVars, pipelineVars, calcVars, inserting,
                   tornRead, expected>>

\* w.longWatchList[time.Now().UTC()] = symbol: the clock is read and the map
\* write begins.
InsertBegin(t) ==
    /\ client[t].pc = "held"
    /\ client[t].op \in AddOps
    /\ \E now \in TimeNow :
          /\ clock' = now
          /\ client' = [client EXCEPT ![t].pc = "insert", ![t].now = now]
    /\ inserting' = IF client[t].op = "AddToLongWatchList" THEN "long" ELSE "short"
    /\ UNCHANGED <<patternVars, validateVars, calcVars, readerVars, configVars, mainVars, wg,
                   chanVars, helperVars, workerVars, tracker, longWatchList,
                   shortWatchList, evalLog, mutex, tornRead, expected>>

\* The map write completes.
InsertEnd(t) ==
    /\ client[t].pc = "insert"
    /\ IF client[t].op = "AddToLongWatchList"
       THEN /\ longWatchList' = MapPut(longWatchList, client[t].now, client[t].symbol)
            /\ expected' = [expected EXCEPT
                               !.long = MapPut(@, client[t].now, client[t].symbol)]
            /\ UNCHANGED shortWatchList
       ELSE /\ shortWatchList' = MapPut(shortWatchList, client[t].now, client[t].symbol)
            /\ expected' = [expected EXCEPT
                               !.short = MapPut(@, client[t].now, client[t].symbol)]
            /\ UNCHANGED longWatchList
    /\ inserting' = "none"
    /\ client' = [client EXCEPT ![t].pc = "unlock"]
    /\ UNCHANGED <<patternVars, validateVars, calcVars, readerVars, configVars, mainVars, wg,
                   chanVars, helperVars, workerVars, tracker, clock, evalLog, mutex,
                   tornRead>>

\* A getter that returns the manager's own map.
CopyOf_Alias(op) ==
    [ref |-> IF op = "GetLongWatchList" THEN "long" ELSE "short", obj |-> <<>>]

\* result := make(map); for timestamp, symbol := range list { result[timestamp] = symbol }
CopyOf(op) ==
    LET list == IF op = "GetLongWatchList" THEN longWatchList ELSE shortWatchList
    IN [ref |-> "fresh", obj |-> [timestamp \in DOMAIN list |-> list[timestamp]]]

\* The body of a reading method, under the shared lock.
StoreRead(t) ==
    /\ client[t].pc = "held"
    /\ client[t].op \in ReadOps
    /\ tornRead' = (tornRead \/ inserting \in ListsOf(client[t].op))
    /\ IF client[t].op \in GetOps
       THEN client' = [client EXCEPT
                          ![t].pc = "unlock",
                          ![t].ret = CopyOf(client[t].op),
                          ![t].expect = IF client[t].op = "GetLongWatchList"
                                        THEN longWatchList ELSE shortWatchList,
                          ![t].modified = FALSE]
       ELSE client' = [client EXCEPT ![t].pc = "unlock"]
    /\ UNCHANGED <<patternVars, validateVars, pipelineVars, calcVars, mutex, inserting,
                   expected>>

\* defer w.mutex.Unlock() / defer w.mutex.RUnlock(): the method returns.
MutexUnlock(t) ==
    /\ client[t].pc = "unlock"
    /\ mutex' = IF mutex.writer THEN [mutex EXCEPT !.writer = FALSE]
                ELSE [mutex EXCEPT !.readers = @ - 1]
    /\ client' = [client EXCEPT ![t].pc = "idle", ![t].op = "none", ![t].now = 0,
                                ![t].symbol = ""]
    /\ UNCHANGED <<patternVars, validateVars, pipelineVars, calcVars, inserting,
                   tornRead, expected>>

\* The caller writes an entry of its own into the map a getter returned.
ModifyCopy(t) ==
    /\ client[t].pc = "idle"
    /\ client[t].ret.ref # "none"
    /\ ~client[t].modified
    /\ client' = [client EXCEPT
                     ![t].modified = TRUE,
                     ![t].expect = MapPut(@, 0, "X"),
                     ![t].ret = IF @.ref = "fresh"
                                THEN [@ EXCEPT !.obj = MapPut(@, 0, "X")] ELSE @]
    /\ longWatchList' = IF client[t].ret.ref = "long"
                        THEN MapPut(longWatchList, 0, "X") ELSE longWatchList
    /\ shortWatchList' = IF client[t].ret.ref = "short"
                         THEN MapPut(shortWatchList, 0, "X") ELSE shortWatchList
    /\ UNCHANGED <<patternVars, validateVars, calcVars, readerVars, configVars, mainVars, wg,
                   chanVars, helperVars, workerVars, tracker, clock, evalLog, mutex,
                   inserting, tornRead, expected>>

InitStore ==
    /\ PatternIdle
    /\ ValidateIdle
    /\ CalcIdle
    /\ PipelineIdle
    /\ mutex = [writer |-> FALSE, readers |-> 0]
    /\ client = [t \in Clients |-> NewClient]
    /\ inserting = "none"
    /\ tornRead = FALSE
    /\ expected = [long |-> <<>>, short |-> <<>>]

NextStore ==
    \/ \E t \in Clients : StoreCall(t)
    \/ \E t \in Clients : MutexLock(t)
    \/ \E t \in Clients : MutexRLock(t)
    \/ \E t \in Clients : InsertBegin(t)
    \/ \E t \in Clients : InsertEnd(t)
    \/ \E t \in Clients : StoreRead(t)
    \/ \E t \in Clients : MutexUnlock(t)
    \/ \E t \in Clients : ModifyCopy(t)

SpecStore == InitStore /\ [][NextStore]_vars

(***************************************************************************)
(* Calculator runs: one call of EMA, RSI or Stochastic RSI Calculate on a  *)
(* price series.                                                           *)
(***************************************************************************)
Levels == 0..MaxLevel

\* All series of whole prices of length 0..MaxSeries.
SeriesOfLength(n) == [1..n -> Levels]

AllSeries == UNION {SeriesOfLength(n) : n \in 0..MaxSeries}

Periods == 1..MaxPeriod

CalcOps ==
    {[name |-> "EMA", periods |-> <<p>>] : p \in Periods}
    \cup {[name |-> "RSI", periods |-> <<p>>] : p \in Periods}
    \cup {[name |-> "StochasticRSI", periods |-> <<r, k, d>>] :
             r \in Periods, k \in Periods, d \in Periods}

CallEMACalculate ==
    /\ calcPc = "ready"
    /\ calcOp.name = "EMA"
    /\ calcOut' = EMACalculate(ToFloats(series), calcOp.periods[1])
    /\ calcPc' = "done"
    /\ UNCHANGED <<patternVars, validateVars, pipelineVars, clientVars, series, calcOp>>

CallRSICalculate ==
    /\ calcPc = "ready"
    /\ calcOp.name = "RSI"
    /\ calcOut' = RSICalculate(ToFloats(series), calcOp.periods[1])
    /\ calcPc' = "done"
    /\ UNCHANGED <<patternVars, validateVars, pipelineVars, clientVars, series, calcOp>>

CallStochasticRSICalculate ==
    /\ calcPc = "ready"
    /\ calcOp.name = "StochasticRSI"
    /\ calcOut' = StochasticRSICalculate(ToFloats(series), calcOp.periods[1],
                                         calcOp.periods[2], calcOp.periods[3])
    /\ calcPc' = "done"
    /\ UNCHANGED <<patternVars, validateVars, pipelineVars, clientVars, series, calcOp>>

InitCalc ==
    /\ PatternIdle
    /\ ValidateIdle
    /\ PipelineIdle
    /\ ClientIdle
    /\ series \in AllSeries
    /\ calcOp \in CalcOps
    /\ calcOut = 0
    /\ calcPc = "ready"

NextCalc ==
    \/ CallEMACalculate
    \/ CallRSICalculate
    \/ CallStochasticRSICalculate

SpecCalc == InitCalc /\ [][NextCalc]_vars

(***************************************************************************)
(* Check runs: one boolean check of the indicator engine on the closes of  *)
(* a history, with the periods the strategy passes.                        *)
(***************************************************************************)
\* The periods of ValidateTrend / ValidateDowntrend.
EMAPeriods == <<20, 50, 100, MinCloses>>

\* len(prices) below which StochasticRSICalculator.Calculate(prices, 5, 3, 3)
\* returns the empty result.
StochasticMinLen == StochRSIPeriod + StochKPeriod + StochDPeriod

\* The history the calculators produce for n closes: EMACalculator.Calculate
\* returns 0 for a period longer than the series, StochasticRSICalculator.Calculate
\* the empty result for a series shorter than the three periods together; the
\* other outputs are those of h.
CalculatedHistory(n, h) ==
    [h EXCEPT
        !.closesLen = n,
        !.emas = [i \in 1..4 |-> IF n < EMAPeriods[i] THEN 0 ELSE h.emas[i]],
        !.stoch = IF n < StochasticMinLen THEN [K |-> 0, Crossover |-> FALSE]
                  ELSE h.stoch]

CheckLengths ==
    {0, 1, StochasticMinLen - 1, StochasticMinLen, MACDSlowPeriod - 1, MACDSlowPeriod,
     MACDSlowPeriod + AcceptableCount - 1, MACDSlowPeriod + AcceptableCount,
     MinCloses - 1, MinCloses}

CheckHistories ==
    {CalculatedHistory(n, History(n, e, k, x, m, <<>>)) :
        n \in CheckLengths,
        e \in {EMAUp, EMADown, EMAFlat},
        k \in {20, 80},
        x \in BOOLEAN,
        m \in [1..MaxMarketCount -> {0 - 1, 0, 1}]}

CheckNames ==
    {"ValidateTrend", "ValidateDowntrend", "IsOversoldWithCrossover",
     "IsOverboughtWithCrossover", "IsBearMarketAcceptable", "IsBullMarketAcceptable"}

CheckDone(name, result) ==
    /\ calcPc = "ready"
    /\ calcOp' = [name |-> name, periods |-> <<>>]
    /\ calcOut' = result
    /\ calcPc' = "done"
    /\ UNCHANGED <<patternVars, validateVars, pipelineVars, clientVars, series>>

CallValidateTrend == CheckDone("ValidateTrend", ValidateTrend(history))

CallValidateDowntrend == CheckDone("ValidateDowntrend", ValidateDowntrend(history))

CallIsOversoldWithCrossover ==
    CheckDone("IsOversoldWithCrossover", IsOversoldWithCrossover(history))

CallIsOverboughtWithCrossover ==
    CheckDone("IsOverboughtWithCrossover", IsOverboughtWithCrossover(history))

CallIsBearMarketAcceptable ==
    CheckDone("IsBearMarketAcceptable", IsBearMarketAcceptable(history))

CallIsBullMarketAcceptable ==
    CheckDone("IsBullMarketAcceptable", IsBullMarketAcceptable(history))

InitChecks ==
    /\ PatternIdle
    /\ PipelineIdle
    /\ ClientIdle
    /\ history \in CheckHistories
    /\ scenarioType = "Long"
    /\ validation = NewValidationResult("")
    /\ validatePc = "idle"
    /\ verdicts = <<>>
    /\ series = <<>>
    /\ calcOp = "none"
    /\ calcOut = 0
    /\ calcPc = "ready"

NextChecks ==
    \/ CallValidateTrend
    \/ CallValidateDowntrend
    \/ CallIsOversoldWithCrossover
    \/ CallIsOverboughtWithCrossover
    \/ CallIsBearMarketAcceptable
    \/ CallIsBullMarketAcceptable

SpecChecks == InitChecks /\ [][NextChecks]_vars

(***************************************************************************)
(* The Stochastic RSI gates on a price series, with the periods the        *)
(* strategy passes (5, 3, 3).                                              *)
(***************************************************************************)
\* The prices that start at p and move by the given steps.
RECURSIVE WalkFrom(_, _)
WalkFrom(p, steps) ==
    IF steps = <<>> THEN <<p>> ELSE <<p>> \o WalkFrom(p + Head(steps), Tail(steps))

\* Closing prices, as many as the three periods together: they start with
\* 20, 19 and 18 and move on by the given steps; and one series that is too
\* short.
GateSeries ==
    {<<20, 19>> \o WalkFrom(18, steps) :
        steps \in [1..(StochasticMinLen - 3) -> {0 - 1, 1, 2}]}
    \cup {<<20, 21, 22>>}

GatePeriods == <<StochRSIPeriod, StochKPeriod, StochDPeriod>>

\* return result.K < 30 && result.Crossover
OversoldWithCrossover(result) ==
    [result |-> result,
     value |-> F64LT(result.K, F64Of(OversoldLevel)) /\ result.Crossover]

\* return result.K > 70 && result.Crossover
OverboughtWithCrossover(result) ==
    [result |-> result,
     value |-> F64LT(F64Of(OverboughtLevel), result.K) /\ result.Crossover]

\* return result.K > 70
OverboughtAlone(result) ==
    [result |-> result, value |-> F64LT(F64Of(OverboughtLevel), result.K)]

\* IsOversoldWithCrossover(prices, rsiPeriod, stochKPeriod, stochDPeriod): the
\* result of Calculate and the value returned.
StochasticIsOversoldWithCrossover(prices, rsiPeriod, stochKPeriod, stochDPeriod) ==
    OversoldWithCrossover(StochasticRSICalculate(prices, rsiPeriod, stochKPeriod,
                                                 stochDPeriod))

\* An overbought check that looks at %K alone.
StochasticIsOverboughtWithCrossover_NoCrossover(prices, rsiPeriod, stochKPeriod, stochDPeriod) ==
    OverboughtAlone(StochasticRSICalculate(prices, rsiPeriod, stochKPeriod, stochDPeriod))

\* IsOverboughtWithCrossover(prices, rsiPeriod, stochKPeriod, stochDPeriod)
StochasticIsOverboughtWithCrossover(prices, rsiPeriod, stochKPeriod, stochDPeriod) ==
    OverboughtWithCrossover(StochasticRSICalculate(prices, rsiPeriod, stochKPeriod,
                                                   stochDPeriod))

GateDone(name, out) ==
    /\ calcPc = "ready"
    /\ calcOp' = [name |-> name, periods |-> GatePeriods]
    /\ calcOut' = out
    /\ calcPc' = "done"
    /\ UNCHANGED <<patternVars, validateVars, pipelineVars, clientVars, series>>

\* validateStochasticRSILong
CallStochasticGateLong ==
    GateDone("IsOversoldWithCrossover",
             StochasticIsOversoldWithCrossover(ToFloats(series), GatePeriods[1],
                                               GatePeriods[2], GatePeriods[3]))

\* validateStochasticRSIShort
CallStochasticGateShort ==
    GateDone("IsOverboughtWithCrossover",
             StochasticIsOverboughtWithCrossover(ToFloats(series), GatePeriods[1],
                                                 GatePeriods[2], GatePeriods[3]))

InitGates ==
    /\ PatternIdle
    /\ ValidateIdle
    /\ PipelineIdle
    /\ ClientIdle
    /\ series \in GateSeries
    /\ calcOp = "none"
    /\ calcOut = 0
    /\ calcPc = "ready"

NextGates ==
    \/ CallStochasticGateLong
    \/ CallStochasticGateShort

SpecGates == InitGates /\ [][NextGates]_vars

(***************************************************************************)
(* Properties.                                                             *)
(***************************************************************************)
SpawnedWorkers == {w \in Workers : wPc[w] # "idle"}

AllWorkersDone == \A w \in 1..workerCount : wPc[w] = "done"

RECURSIVE SumOver(_, _)
SumOver(f, S) ==
    IF S = {} THEN 0
    ELSE LET x == CHOOSE y \in S : TRUE IN f[x] + SumOver(f, S \ {x})

Range(f) == {f[x] : x \in DOMAIN f}

\* C1: when ProcessStocksConcurrently returns, exactly K results have been
\* received by collectResults, the tracker's processed counter is K, and
\* longCount + shortCount is at most K, in every interleaving.
C1_TotalsAtReturn ==
    mainPc = "returned" =>
        /\ summary.received = Len(stocks)
        /\ tracker.processed = Len(stocks)
        /\ summary.longCount + summary.shortCount <= Len(stocks)

C1_Witness ==
    /\ mainPc = "returned"
    /\ Len(stocks) = 2
    /\ workerCount = 2
    /\ summary.received = 2
    /\ summary.longCount = 1
    /\ summary.shortCount = 1

\* C2: ValidateShortSetup is called for a position only after ValidateLongSetup
\* returned not valid; no position gets both an AddToLongWatchList and an
\* AddToShortWatchList call; a symbol evaluated once is in at most one of the
\* two watch lists.
C2_LongFirstExclusive ==
    /\ \A i \in Positions :
          /\ evalLog[i].shortCalls > 0 => (evalLog[i].longCalls = 1 /\ ~evalLog[i].longValid)
          /\ ~(evalLog[i].addLong > 0 /\ evalLog[i].addShort > 0)
    /\ \A sym \in Symbols :
          Cardinality({i \in Positions : stocks[i] = sym}) = 1 =>
              ~(sym \in Range(longWatchList) /\ sym \in Range(shortWatchList))

C2_Witness ==
    /\ Len(stocks) = 2
    /\ stocks[1] # stocks[2]
    /\ evalLog[1].longValid /\ evalLog[1].shortCalls = 0 /\ evalLog[1].addLong = 1
    /\ ~evalLog[2].longValid /\ evalLog[2].shortCalls = 1 /\ evalLog[2].addShort = 1
    /\ Range(longWatchList) = {stocks[1]}
    /\ Range(shortWatchList) = {stocks[2]}

\* C3: a position whose fetch fails gets exactly one result, with Success false
\* and the error, no validator call, no watch list call and no second fetch;
\* the run still produces one result for every other position.
C3_FetchFailureIsolated ==
    /\ \A i \in Positions :
          evalLog[i].fetched = "error" =>
              /\ evalLog[i].fetches = 1
              /\ evalLog[i].longCalls = 0 /\ evalLog[i].shortCalls = 0
              /\ evalLog[i].addLong = 0 /\ evalLog[i].addShort = 0
              /\ Len(evalLog[i].sent) <= 1
              /\ \A k \in 1..Len(evalLog[i].sent) :
                    /\ ~evalLog[i].sent[k].Success
                    /\ evalLog[i].sent[k].Error = FetchError
                    /\ ~evalLog[i].sent[k].IsValid
    /\ mainPc = "returned" =>
          /\ \A i \in Positions : Len(evalLog[i].sent) = 1 /\ evalLog[i].fetches = 1
          /\ \A sym \in Symbols :
                (\A i \in Positions : stocks[i] = sym => evalLog[i].fetched = "error") =>
                    sym \notin Range(longWatchList) \cup Range(shortWatchList)

C3_Witness ==
    /\ mainPc = "returned"
    /\ workerCount = 1
    /\ Len(stocks) = 2
    /\ evalLog[1].fetched = "error"
    /\ Len(evalLog[1].sent) = 1
    /\ evalLog[2].fetched = "history"
    /\ evalLog[2].sent[1].Success

\* The run is over: both queues are closed, every worker of the run has exited
\* and ProcessStocksConcurrently has returned.
RunCompleted ==
    /\ mainPc = "returned"
    /\ stockChanClosed /\ enqPc = "done"
    /\ resultChanClosed /\ closerPc = "done"
    /\ SpawnedWorkers = 1..workerCount
    /\ AllWorkersDone

\* C4: under a fair scheduler every run completes, for every symbol list
\* (the empty one included): eventually the input queue is closed, every worker
\* has exited, the result queue is closed and ProcessStocksConcurrently has
\* returned, and it stays so; no goroutine stays blocked on a queue.
C4_RunCompletes == <>[]RunCompleted

C4_Witness ==
    /\ RunCompleted
    /\ Len(stocks) = 2
    /\ workerCount = 2
    /\ summary.received = 2

\* C5 (as claimed): GetLongCount equals the number of AddToLongWatchList calls
\* and GetShortCount the number of AddToShortWatchList calls: no add overwrites
\* an earlier entry.
C5_EveryAddRetained ==
    /\ GetLongCount = SumOver([i \in Positions |-> evalLog[i].addLong], Positions)
    /\ GetShortCount = SumOver([i \in Positions |-> evalLog[i].addShort], Positions)

\* C6: a run spawns at least 1 and at most 10 workers: a configured count below
\* 1 gives 1, above 10 gives 10, and a count in 1..10 is used unchanged.
C6_WorkerCountClamped ==
    /\ Cardinality(SpawnedWorkers) <= 10
    /\ mainPc \notin {"start", "spawn"} =>
          /\ Cardinality(SpawnedWorkers) >= 1
          /\ cfgWorkerCount < 1 => Cardinality(SpawnedWorkers) = 1
          /\ cfgWorkerCount > 10 => Cardinality(SpawnedWorkers) = 10
          /\ cfgWorkerCount \in 1..10 => Cardinality(SpawnedWorkers) = cfgWorkerCount

C6_Witness ==
    /\ mainPc = "returned"
    /\ cfgWorkerCount = 12
    /\ Cardinality(SpawnedWorkers) = 10

\* C7: the result queue is closed only after every worker has finished: no
\* worker sends on the closed queue, and the drain loop of collectResults ends
\* only after all workers have exited.
C7_CloseAfterWorkers ==
    /\ ~panicked
    /\ resultChanClosed => (SpawnedWorkers = 1..workerCount /\ AllWorkersDone)
    /\ mainPc = "returned" => (resultChanClosed /\ AllWorkersDone)

C7_Witness ==
    /\ resultChanClosed
    /\ mainPc = "collect"
    /\ workerCount = 2
    /\ Len(resultChan) = 2
    /\ AllWorkersDone

GateOrder == <<"ema", "stochastic", "macd", "pattern">>

\* What each gate decides for a history and a scenario, in the order of GateOrder.
GateOutcomes(h, scenario) ==
    <<EMAGate(h, scenario), StochasticGate(h, scenario), MACDGate(h, scenario),
      PatternGate(DetectAllPatterns(h.tail, h.emas), scenario)>>

\* Index of the first failing gate; 5 when all four pass.
FirstFailing(g) ==
    IF \E i \in 1..4 : ~g[i]
    THEN CHOOSE i \in 1..4 : ~g[i] /\ \A j \in 1..(i - 1) : g[j]
    ELSE 5

GateMessage(i, scenario) ==
    IF scenario = "Long"
    THEN <<MsgEMALong, MsgStochLong, MsgMACDLong, MsgPatternLong, MsgValidLong>>[i]
    ELSE <<MsgEMAShort, MsgStochShort, MsgMACDShort, MsgPatternShort, MsgValidShort>>[i]

GateFlags(r) == <<r.EMATrendValid, r.StochasticValid, r.MACDValid, r.PatternValid>>

\* C8: validateSetup evaluates the gates in the order EMA, Stochastic RSI, MACD,
\* pattern and returns at the first failing gate with isValid false and that
\* gate's message; the flags of the failing gate and of the gates after it are
\* false; isValid is true only with all four flags, and the success message.
C8_GatesShortCircuit ==
    (validatePc = "done" /\ history.closesLen >= 200) =>
        LET g == GateOutcomes(history, scenarioType)
            f == FirstFailing(g)
        IN /\ validation.Gates = SubSeq(GateOrder, 1, IF f = 5 THEN 4 ELSE f)
           /\ \A i \in 1..4 : GateFlags(validation)[i] = (i < f)
           /\ validation.IsValid = (f = 5)
           /\ validation.IsValid => \A i \in 1..4 : GateFlags(validation)[i]
           /\ validation.ValidationMessage = GateMessage(f, scenarioType)

C8_Witness ==
    /\ validatePc = "done"
    /\ scenarioType = "Short"
    /\ validation.EMATrendValid /\ validation.StochasticValid
    /\ ~validation.MACDValid /\ ~validation.PatternValid /\ ~validation.IsValid
    /\ validation.ValidationMessage = MsgMACDShort
    /\ validation.Gates = <<"ema", "stochastic", "macd">>
    /\ DetectAllPatterns(history.tail, history.emas) = "Short2CandlestickReversal"

ValidPositions == {i \in Positions : evalLog[i].longValid \/ evalLog[i].shortValid}

ErrorPositions == {i \in Positions : evalLog[i].fetched = "error"}

\* C9: a history with fewer than 200 closes is invalid for both scenarios with
\* the insufficient-data message and no gate flag; the pipeline reports the
\* symbol as Success without error and not valid, adds it to no watch list and
\* counts it in processed but not in valid or errors.
C9_InsufficientDataFailsClosed ==
    /\ \A i \in Positions :
          evalLog[i].fetched = "short history" =>
              /\ evalLog[i].longCalls = 1 /\ evalLog[i].shortCalls = 1
              /\ ~evalLog[i].longValid /\ ~evalLog[i].shortValid
              /\ evalLog[i].longMessage = MsgInsufficient
              /\ evalLog[i].shortMessage = MsgInsufficient
              /\ evalLog[i].gateFlags = 0
              /\ evalLog[i].addLong = 0 /\ evalLog[i].addShort = 0
              /\ i \notin ValidPositions \cup ErrorPositions
              /\ \A k \in 1..Len(evalLog[i].sent) :
                    /\ evalLog[i].sent[k].Success
                    /\ evalLog[i].sent[k].Error = NoError
                    /\ ~evalLog[i].sent[k].IsValid
                    /\ ~evalLog[i].sent[k].IsLongValid
                    /\ ~evalLog[i].sent[k].IsShortValid
    /\ tracker.valid <= Cardinality(ValidPositions)
    /\ tracker.errors <= Cardinality(ErrorPositions)
    /\ mainPc = "returned" =>
          /\ tracker.processed = Len(stocks)
          /\ tracker.valid = Cardinality(ValidPositions)
          /\ tracker.errors = Cardinality(ErrorPositions)
          /\ summary.validCount = Cardinality(ValidPositions)
          /\ summary.errorCount = Cardinality(ErrorPositions)
          /\ summary.successCount = Len(stocks) - Cardinality(ErrorPositions)

C9_Witness ==
    /\ mainPc = "returned"
    /\ Len(stocks) = 2
    /\ evalLog[1].fetched = "short history"
    /\ evalLog[2].fetched = "history" /\ evalLog[2].shortValid
    /\ tracker.processed = 2 /\ tracker.valid = 1 /\ tracker.errors = 0
    /\ summary.successCount = 2
    /\ Range(longWatchList) \cup Range(shortWatchList) = {stocks[2]}
    /\ stocks[1] # stocks[2]

\* The four detectors on the candle tail, in the priority order.
DetectorOutcomes(cs, emas) ==
    <<DetectLong2CandlestickReversal(cs, emas), DetectShort2CandlestickReversal(cs, emas),
      DetectLongPinbarReversal(cs, emas), DetectShortPinbarReversal(cs, emas)>>

PriorityOrder ==
    <<"Long2CandlestickReversal", "Short2CandlestickReversal", "LongPinbarReversal",
      "ShortPinbarReversal">>

\* C10: DetectAllPatterns returns exactly one variant: the first of
\* Long2CandlestickReversal, Short2CandlestickReversal, LongPinbarReversal,
\* ShortPinbarReversal whose detector is true, and NoPattern iff none is true.
C10_FirstMatchWins ==
    detectPc = "done" =>
        LET d == DetectorOutcomes(candles, emaLevels)
        IN /\ patternType \in PatternTypes
           /\ \A i \in 1..4 :
                 (patternType = PriorityOrder[i]) <=> (d[i] /\ \A j \in 1..(i - 1) : ~d[j])
           /\ (patternType = "NoPattern") <=> (\A i \in 1..4 : ~d[i])

C10_Witness ==
    /\ detectPc = "done"
    /\ DetectLong2CandlestickReversal(candles, emaLevels)
    /\ DetectLongPinbarReversal(candles, emaLevels)
    /\ patternType = "Long2CandlestickReversal"

\* The result sent for a position (each position sends at most one).
SentPositions == {i \in Positions : evalLog[i].sent # <<>>}

CountSent(P(_)) == Cardinality({i \in SentPositions : P(evalLog[i].sent[1])})

ResultSuccess(r) == r.Success

ResultError(r) == ~r.Success

ResultValid(r) == r.Success /\ r.IsValid

ResultLong(r) == r.Success /\ r.IsLongValid

ResultShort(r) == r.Success /\ r.IsShortValid

\* C11: the summary of collectResults is consistent whatever the arrival order:
\* success + error is the number of results drained, valid = long + short,
\* valid <= success; at return the drained number is K, error is the number of
\* symbols whose fetch failed and the six counts are those of the set of
\* results, independent of the order in which they arrived.
C11_SummaryOrderFree ==
    /\ summary.successCount + summary.errorCount = summary.received
    /\ summary.validCount = summary.longCount + summary.shortCount
    /\ summary.validCount <= summary.successCount
    /\ mainPc = "returned" =>
          /\ summary.successCount + summary.errorCount = Len(stocks)
          /\ summary.errorCount = Cardinality(ErrorPositions)
          /\ summary.successCount = CountSent(ResultSuccess)
          /\ summary.errorCount = CountSent(ResultError)
          /\ summary.validCount = CountSent(ResultValid)
          /\ summary.longCount = CountSent(ResultLong)
          /\ summary.shortCount = CountSent(ResultShort)

\* The result of the second symbol was tallied before the result of the first.
C11_Witness ==
    /\ mainPc = "collect"
    /\ stocks = <<"A", "B">>
    /\ evalLog[2].fetched = "error"
    /\ evalLog[1].shortValid
    /\ summary.received = 1 /\ summary.errorCount = 1
    /\ Len(resultChan) = 1
    /\ resultChan[1].Symbol = "A" /\ resultChan[1].IsShortValid

\* The callers inside an add (between Lock and Unlock) and inside a read.
WritersIn == {t \in DOMAIN client : client[t].op \in AddOps
                                    /\ client[t].pc \in {"held", "insert", "unlock"}}

ReadersIn == {t \in DOMAIN client : client[t].op \in ReadOps
                                    /\ client[t].pc \in {"held", "unlock"}}

\* C12: the manager's RWMutex is held exclusively during every add and shared
\* during every get, count and print: a writer is never inside together with
\* another writer or with a reader, an insertion is in progress only inside
\* the one writer, and no read meets a collection in the middle of an insertion.
C12_WriterExcludesAll ==
    /\ Cardinality(WritersIn) <= 1
    /\ WritersIn # {} => ReadersIn = {}
    /\ mutex.writer = (WritersIn # {})
    /\ mutex.readers = Cardinality(ReadersIn)
    /\ inserting # "none" => (ReadersIn = {} /\ \E t \in WritersIn : client[t].pc = "insert")
    /\ ~tornRead

\* Two readers are inside together, on a list that has an entry.
C12_Witness ==
    /\ Cardinality(ReadersIn) = 2
    /\ \E t \in ReadersIn : client[t].op = "GetLongWatchList"
    /\ longWatchList # <<>>
    /\ mutex.readers = 2

\* C13: GetLongWatchList and GetShortWatchList return a defensive copy: the map
\* a caller got holds the store's entries as of the call plus what the caller
\* itself wrote into it, whatever was added to the store since; and the store's
\* collections and counts are those of the adds, whatever callers wrote into
\* their copies.
C13_DefensiveCopy ==
    /\ \A t \in DOMAIN client :
          client[t].ret.ref # "none" => Deref(client[t].ret) = client[t].expect
    /\ longWatchList = expected.long
    /\ shortWatchList = expected.short
    /\ GetLongCount = Cardinality(DOMAIN expected.long)
    /\ GetShortCount = Cardinality(DOMAIN expected.short)

\* A caller modified the copy it got, and an add reached the store afterwards.
C13_Witness ==
    \E t \in DOMAIN client :
        /\ client[t].ret.ref = "fresh"
        /\ client[t].modified
        /\ 0 \in DOMAIN client[t].ret.obj
        /\ 0 \notin DOMAIN longWatchList \cup DOMAIN shortWatchList
        /\ \E u \in DOMAIN longWatchList : u \notin DOMAIN client[t].ret.obj
        /\ client[t].calls = 1

\* C14: the progress reporter stops once processed >= total: it returns at the
\* tick that observes processed >= total and renders nothing afterwards, it
\* never stops while processed < total, and under a fair scheduler it eventually
\* stops in every run.
C14_MonitorStopsWhenComplete ==
    /\ [][monitorPc = "stopped" => monitorPc' = "stopped"]_vars
    /\ [][(monitorPc = "running" /\ monitorPc' = "stopped") => IsComplete]_vars
    /\ [](monitorPc = "stopped" => IsComplete)
    /\ (monitorPc = "running" /\ IsComplete) ~> (monitorPc = "stopped")
    /\ <>[](monitorPc = "stopped")

C14_Witness ==
    /\ monitorPc = "stopped"
    /\ Len(stocks) = 2
    /\ tracker.processed = 2 /\ tracker.total = 2
    /\ mainPc = "collect"
    /\ ~resultChanClosed

\* The positions whose UpdateProgress call has incremented processed, and
\* those among them whose call increments valid or errors as well.
UpdatedPositions == {i \in Positions : evalLog[i].updates > 0}

FlaggedPositions == UpdatedPositions \cap (ValidPositions \cup ErrorPositions)

PendingFlags == {w \in Workers : wPc[w] = "updateFlag"}

\* C15: the tracker's total is the symbol count given at construction and never
\* changes; processed, valid and errors never decrease; each UpdateProgress
\* call raises processed by exactly 1 and at most one of valid and errors by 1;
\* concurrent calls lose no increment; processed never exceeds total.
C15_TrackerCounters ==
    /\ [](mainPc # "start" => tracker.total = Len(stocks))
    /\ [][mainPc # "start" => tracker'.total = tracker.total]_vars
    /\ [][/\ tracker'.processed \in {tracker.processed, tracker.processed + 1}
          /\ tracker'.valid \in {tracker.valid, tracker.valid + 1}
          /\ tracker'.errors \in {tracker.errors, tracker.errors + 1}
          /\ (tracker'.processed - tracker.processed) + (tracker'.valid - tracker.valid)
                + (tracker'.errors - tracker.errors) <= 1]_vars
    /\ [](/\ \A i \in Positions : evalLog[i].updates <= 1
          /\ tracker.processed = SumOver([i \in Positions |-> evalLog[i].updates], Positions)
          /\ tracker.valid + tracker.errors + Cardinality(PendingFlags)
                = Cardinality(FlaggedPositions)
          /\ tracker.valid <= Cardinality(UpdatedPositions \cap ValidPositions)
          /\ tracker.errors <= Cardinality(UpdatedPositions \cap ErrorPositions)
          /\ tracker.processed <= tracker.total)

\* Two workers were inside UpdateProgress together and both increments count.
C15_Witness ==
    /\ wPc[1] = "updateFlag" /\ wPc[2] = "updateFlag"
    /\ tracker.processed = 2 /\ tracker.total = 2
    /\ tracker.valid = 0 /\ tracker.errors = 0
    /\ wResult[1].IsValid /\ ~wResult[2].Success

RECURSIVE SeqSum(_)
SeqSum(seq) == IF seq = <<>> THEN 0 ELSE Head(seq) + SeqSum(Tail(seq))

\* C16: EMA Calculate returns 0 for every series shorter than the period, and
\* for a series as long as the period the arithmetic mean of the series.
C16_EMASentinelAndSeed ==
    (calcPc = "done" /\ calcOp.name = "EMA") =>
        /\ Len(series) < calcOp.periods[1] => calcOut = F64Zero
        /\ Len(series) = calcOp.periods[1] =>
              calcOut = F64Div(F64Of(SeqSum(series)), F64Of(Len(series)))

C16_Witness ==
    /\ calcPc = "done" /\ calcOp.name = "EMA"
    /\ calcOp.periods[1] = 2
    /\ series = <<1, 2>>
    /\ calcOut = F64Div(F64Of(3), F64Of(2))

StrictlyIncreasing(seq) == \A i \in 1..(Len(seq) - 1) : seq[i] < seq[i + 1]

\* C17: RSI Calculate returns exactly 100 for every strictly increasing series
\* of length at least period + 1, and 0 for every series shorter than period + 1.
C17_RSIIncreasingIs100 ==
    (calcPc = "done" /\ calcOp.name = "RSI") =>
        /\ Len(series) < calcOp.periods[1] + 1 => calcOut = F64Zero
        /\ (Len(series) >= calcOp.periods[1] + 1 /\ StrictlyIncreasing(series))
              => calcOut = F64Of(100)

C17_Witness ==
    /\ calcPc = "done" /\ calcOp.name = "RSI"
    /\ calcOp.periods[1] = 1
    /\ series = <<0, 1, 2>>
    /\ calcOut = F64Of(100)

InPercentRange(x) == F64LE(F64Zero, x) /\ F64LE(x, F64Of(100))

\* The RSI values the call computes, and the %K values computed from them.
CallRSIValues == RSIValues(ToFloats(series), calcOp.periods[1])

CallStochKValues == StochKValues(CallRSIValues, calcOp.periods[2])

\* The RSI values of the window of the n-th %K value.
KWindow(rsiValues, n) == {rsiValues[j] : j \in n..(n + calcOp.periods[2] - 1)}

\* C18: every %K value of StochasticRSI Calculate lies in [0,100]; the %K of a
\* window of RSI values whose maximum equals its minimum is exactly 50; the
\* returned %K and %D lie in [0,100].
C18_StochKInRange ==
    (calcPc = "done" /\ calcOp.name = "StochasticRSI") =>
        /\ InPercentRange(calcOut.K)
        /\ InPercentRange(calcOut.D)
        /\ Len(series) >= calcOp.periods[1] + calcOp.periods[2] + calcOp.periods[3] =>
              LET rsiValues == CallRSIValues
                  stochKValues == StochKValues(rsiValues, calcOp.periods[2])
              IN /\ \A n \in 1..Len(stochKValues) :
                       /\ InPercentRange(stochKValues[n])
                       /\ Cardinality(KWindow(rsiValues, n)) = 1 =>
                             stochKValues[n] = F64Of(50)
                 /\ calcOut.K = stochKValues[Len(stochKValues)]

\* A call whose last window of RSI values is flat, after a window that is not:
\* %K is 50 and %D the mean of 100 and 50.
C18_Witness ==
    /\ calcPc = "done" /\ calcOp.name = "StochasticRSI"
    /\ calcOp.periods = <<1, 2, 2>>
    /\ calcOut.K = F64Of(50)
    /\ calcOut.D = F64Of(75)
    /\ Len(CallStochKValues) >= 2
    /\ Cardinality(KWindow(CallRSIValues, Len(CallStochKValues))) = 1

\* The price series is too short for the indicator of the check.
TooShortFor(name, n) ==
    IF name \in {"ValidateTrend", "ValidateDowntrend"} THEN n < MinCloses
    ELSE IF name \in {"IsOversoldWithCrossover", "IsOverboughtWithCrossover"}
         THEN n < StochasticMinLen
    ELSE n < MACDSlowPeriod

\* C19 (as claimed): on a price series too short for its indicator every one of
\* ValidateTrend, ValidateDowntrend, IsOversoldWithCrossover,
\* IsOverboughtWithCrossover, IsBearMarketAcceptable and IsBullMarketAcceptable
\* returns false.
C19_ShortHistoryFailsChecks ==
    (calcPc = "done" /\ calcOp.name \in CheckNames
        /\ TooShortFor(calcOp.name, history.closesLen)) => calcOut = FALSE

\* The prefixes of the series the duration scan can evaluate, up to the cap.
EvaluablePrefixes(h) == min(max(h.closesLen - MACDSlowPeriod + 1, 0), MaxMarketCount)

\* C20: IsBearMarketAcceptable returns true at once when MACD > Signal at the
\* last bar; otherwise it counts, from the last bar backwards, the bars with
\* MACD <= Signal up to the first bar with MACD > Signal, stops at 6 and
\* returns true iff the count is at most 5: it returns false exactly when the
\* last six bars can be evaluated and are all bear bars.  IsBullMarketAcceptable is the mirror image:
\* false exactly when MACD >= Signal at each of the last six bars.
C20_MarketDurationAcceptable ==
    (calcPc = "done" /\ history.closesLen >= MACDSlowPeriod) =>
        /\ calcOp.name = "IsBearMarketAcceptable" =>
              /\ history.macdCmp[1] > 0 => calcOut = TRUE
              /\ calcOut = ~(/\ EvaluablePrefixes(history) = MaxMarketCount
                             /\ \A k \in 1..MaxMarketCount : history.macdCmp[k] <= 0)
        /\ calcOp.name = "IsBullMarketAcceptable" =>
              /\ history.macdCmp[1] < 0 => calcOut = TRUE
              /\ calcOut = ~(/\ EvaluablePrefixes(history) = MaxMarketCount
                             /\ \A k \in 1..MaxMarketCount : history.macdCmp[k] >= 0)

\* A bear run of exactly five bars after a bull bar is acceptable.
C20_Witness ==
    /\ calcPc = "done" /\ calcOp.name = "IsBearMarketAcceptable"
    /\ history.closesLen = MinCloses
    /\ \A k \in 1..AcceptableCount : history.macdCmp[k] < 0
    /\ history.macdCmp[MaxMarketCount] > 0
    /\ calcOut = TRUE

\* The workers whose FetchStockData request is in flight.
InFlight == {w \in Workers : wPc[w] = "fetch"}

\* C21: at most workerCount fetch requests are in flight at any time (one per
\* worker), and with a positive delay a worker reaches its next receive from
\* an item only through the sleep that follows UpdateProgress, while with no
\* delay it goes there straight from UpdateProgress.
C21_InFlightBoundedAndSleep ==
    /\ [](/\ Cardinality(InFlight) <= workerCount
          /\ InFlight \subseteq 1..spawned)
    /\ [][\A w \in Workers :
            (wPc[w] \notin {"idle", "recv"} /\ wPc'[w] = "recv") =>
                IF requestDelay > 0 THEN wPc[w] = "sleep"
                ELSE wPc[w] \in {"update", "updateFlag"}]_vars
    /\ [][\A w \in Workers :
            (wPc[w] \in {"update", "updateFlag"} /\ wPc'[w] \notin {"update", "updateFlag"}
                /\ requestDelay > 0) => wPc'[w] = "sleep"]_vars

\* With a delay configured, one worker sleeps after its item while the other
\* worker's fetch is in flight.
C21_Witness ==
    /\ requestDelay > 0
    /\ workerCount = 2
    /\ wPc[1] = "sleep"
    /\ wPc[2] = "fetch"
    /\ tracker.processed = 1

\* C22 (as claimed): some candle history makes ValidateLongSetup and
\* ValidateShortSetup, each called on its own, both return IsValid = true.
C22_BothScenariosCanMatch ==
    \E h \in IndependentHistories :
        ValidateLongSetup("A", h).IsValid /\ ValidateShortSetup("A", h).IsValid

\* C22 (amended): no history validates for both scenarios.  When
\* ValidateLongSetup and ValidateShortSetup have both been called on the same
\* history, at most one verdict is valid: the uptrend and the downtrend order
\* of the same four EMA values exclude each other, so do %K < 30 and %K > 70.
C22_ScenariosExclusive ==
    DOMAIN verdicts = {"Long", "Short"} =>
        /\ ~(verdicts["Long"].IsValid /\ verdicts["Short"].IsValid)
        /\ ~(verdicts["Long"].EMATrendValid /\ verdicts["Short"].EMATrendValid)

\* Both scenarios were validated on a history that is a valid Long setup, and
\* the Short verdict, though evaluated, is not valid.
C22_Witness ==
    /\ DOMAIN verdicts = {"Long", "Short"}
    /\ verdicts["Long"].IsValid
    /\ ~verdicts["Short"].IsValid
    /\ verdicts["Short"].ValidationMessage = MsgEMAShort

\* C23: both queues have the capacity of the symbol count: the result queue
\* never holds more than len(stocks) results, and a worker that is at its send
\* can always complete it, also while the aggregator has received nothing;
\* the input queue never holds more than len(stocks) symbols and the enqueuing
\* goroutine can always complete its next send, also while no worker has
\* received anything.
C23_QueuesNeverBlock ==
    /\ Len(resultChan) <= Len(stocks)
    /\ Len(stockChan) <= Len(stocks)
    /\ ~panicked
    /\ \A w \in Workers :
          wPc[w] = "send" => (~resultChanClosed /\ ENABLED SendResult(w))
    /\ (enqPc = "send" /\ enqNext <= Len(stocks)) => ENABLED EnqueueStock

\* The result queue is full with the results of all symbols before the
\* aggregator has received one.
C23_Witness ==
    /\ Len(stocks) = 2
    /\ Len(resultChan) = 2
    /\ summary.received = 0
    /\ workerCount = 1

\* The number of results emitted so far.
EmittedCount == SumOver([i \in Positions |-> Len(evalLog[i].sent)], Positions)

\* C24: a worker records the match in the watch list, then emits the result,
\* then updates the progress counters: the processed counter never exceeds the
\* number of results emitted, a worker is between its send and its update only
\* with its result emitted, and every emitted result that is valid for Long
\* (Short) has its add to the long (short) watch list completed.
C24_AddThenEmitThenUpdate ==
    /\ tracker.processed <= EmittedCount
    /\ \A i \in Positions :
          /\ evalLog[i].updates <= Len(evalLog[i].sent)
          /\ \A k \in 1..Len(evalLog[i].sent) :
                /\ evalLog[i].sent[k].IsLongValid => evalLog[i].addLong >= 1
                /\ evalLog[i].sent[k].IsShortValid => evalLog[i].addShort >= 1
    /\ \A w \in Workers :
          /\ wPc[w] \in {"update", "updateFlag"} => evalLog[wStock[w]].sent # <<>>
          /\ wPc[w] = "send" =>
                /\ evalLog[wStock[w]].sent = <<>>
                /\ wResult[w].IsLongValid => evalLog[wStock[w]].addLong = 1
                /\ wResult[w].IsShortValid => evalLog[wStock[w]].addShort = 1

\* A result valid for Long has been emitted after its add, and the progress
\* counters have not been updated yet.
C24_Witness ==
    /\ Len(stocks) >= 1
    /\ wPc[1] = "update"
    /\ wStock[1] = 1
    /\ evalLog[1].sent # <<>>
    /\ evalLog[1].sent[1].IsLongValid
    /\ evalLog[1].addLong = 1
    /\ tracker.processed = 0
    /\ DOMAIN longWatchList # {}

\* The %K values of the gate's series.
GateKValues == StochKValues(RSIValues(ToFloats(series), GatePeriods[1]), GatePeriods[2])

\* The mean of the three %K values that end at the n-th.
MeanOfThree(ks, n) == F64Div(F64Add(F64Add(ks[n - 2], ks[n - 1]), ks[n]), F64Of(3))

\* The crossover of the %K values ks and their three-bar means at the n-th.
KCrossover(ks, n) ==
    /\ F64LT(ks[n - 1], MeanOfThree(ks, n - 1))
    /\ F64LT(MeanOfThree(ks, n), ks[n])
    /\ F64LT(ks[n - 1], F64Of(30))

\* The outcome of a gate call for the current %K and the crossover.
GateOutcomeIs(n, currentK, crossover) ==
    /\ n >= GatePeriods[3] + 1
    /\ calcOut.result.K = currentK
    /\ calcOut.result.Crossover = crossover
    /\ calcOp.name = "IsOversoldWithCrossover" =>
          calcOut.value = (F64LT(currentK, F64Of(30)) /\ crossover)
    /\ calcOp.name = "IsOverboughtWithCrossover" =>
          calcOut.value = (F64LT(F64Of(70), currentK) /\ crossover)

GateOutcomeFrom(ks) == GateOutcomeIs(Len(ks), ks[Len(ks)], KCrossover(ks, Len(ks)))

\* C25: the crossover flag is true iff the previous %K was below the previous
\* %D, the current %K is above the current %D and the previous %K was below
\* 30; the Long gate passes iff the current %K is below 30 and the flag is set,
\* the Short gate iff the current %K is above 70 and the same flag is set.
C25_CrossoverAndGates ==
    (calcPc = "done" /\ Len(series) >= StochasticMinLen) => GateOutcomeFrom(GateKValues)

\* The Short gate passes: %K rose from below 30 and below %D to above 70 and
\* above %D.
C25_Witness ==
    /\ calcPc = "done"
    /\ calcOp.name = "IsOverboughtWithCrossover"
    /\ calcOut.value = TRUE
    /\ calcOut.result.Crossover
    /\ F64LT(F64Of(70), calcOut.result.K)
    /\ F64LT(GateKValues[StochasticMinLen - GatePeriods[1] - GatePeriods[2]], F64Of(30))

\* C26 (as claimed): when the run has completed the tracker agrees with the
\* aggregator's summary (valid, errors, processed = success + error), and at
\* every state valid + errors <= processed, in the counters and in the values
\* a reader has got from GetProgress.
C26_TrackerAgreesAndReaderConsistent ==
    /\ mainPc = "returned" =>
          /\ tracker.valid = summary.validCount
          /\ tracker.errors = summary.errorCount
          /\ tracker.processed = summary.successCount + summary.errorCount
    /\ tracker.valid + tracker.errors <= tracker.processed
    /\ monitorPc = "printed" => snapshot.valid + snapshot.errors <= snapshot.processed

\* The part of C26 that is about the counters themselves.
C26_CountersPart ==
    /\ mainPc = "returned" =>
          /\ tracker.valid = summary.validCount
          /\ tracker.errors = summary.errorCount
          /\ tracker.processed = summary.successCount + summary.errorCount
    /\ tracker.valid + tracker.errors <= tracker.processed

\* The positions waiting in the input queue, and the number of results
\* emitted with a given symbol.
QueuedPositions == {stockChan[k] : k \in 1..Len(stockChan)}

EmittedWithSymbol(s) ==
    SumOver([i \in Positions |->
                Cardinality({k \in 1..Len(evalLog[i].sent) : evalLog[i].sent[k].Symbol = s})],
            Positions)

\* C27: every position of the symbol list is taken from the input queue by
\* exactly one worker: at any time a position has been taken at most once, it
\* has been taken iff it was enqueued and is no longer queued, no two workers
\* hold the same position, and when the run has returned every position has
\* been taken once and has one result, with its symbol, so the emitted results
\* carry the symbols of the list with their multiplicities.
C27_EachPositionTakenOnce ==
    /\ \A i \in Positions :
          /\ evalLog[i].taken <= 1
          /\ evalLog[i].taken = 1 <=> (i < enqNext /\ i \notin QueuedPositions)
          /\ Len(evalLog[i].sent) <= evalLog[i].taken
          /\ Cardinality({k \in 1..Len(stockChan) : stockChan[k] = i}) <= 1
    /\ \A w \in Workers : \A v \in Workers \ {w} :
          wStock[w] # 0 => wStock[w] # wStock[v]
    /\ mainPc = "returned" =>
          /\ \A i \in Positions :
                /\ evalLog[i].taken = 1
                /\ Len(evalLog[i].sent) = 1
                /\ evalLog[i].sent[1].Symbol = stocks[i]
          /\ \A s \in Symbols :
                EmittedWithSymbol(s) = Cardinality({i \in Positions : stocks[i] = s})
          /\ summary.received = Len(stocks)

\* Two workers hold the two positions of a list that names one symbol twice.
C27_Witness ==
    /\ stocks = <<"A", "A">>
    /\ workerCount = 2
    /\ wStock[1] = 2
    /\ wStock[2] = 1
    /\ evalLog[1].taken = 1 /\ evalLog[2].taken = 1

\* What the long-side and the short-side detectors say of the tail.
LongSideDetected ==
    \/ DetectLong2CandlestickReversal(candles, emaLevels)
    \/ DetectLongPinbarReversal(candles, emaLevels)

ShortSideDetected ==
    \/ DetectShort2CandlestickReversal(candles, emaLevels)
    \/ DetectShortPinbarReversal(candles, emaLevels)

WellFormedReversal == candles[Len(candles) - 1].Low <= candles[Len(candles) - 1].High

\* C28 without the condition on the reversal candle.
C28_AnyReversalCandle ==
    (detectPc = "done" /\ Len(candles) >= 3) => ~(LongSideDetected /\ ShortSideDetected)

\* C28: on a tail whose reversal candle has low <= high, no long-side detector
\* and short-side detector are true together, so DetectAllPatterns returns a
\* long pattern whenever a long-side detector is true (the Short2 check that
\* precedes the long pinbar check hides no long pinbar from the Long pattern
\* gate), and a short pattern whenever a short-side detector is true.
C28_LongAndShortPatternsExclusive ==
    (detectPc = "done" /\ Len(candles) >= 3 /\ WellFormedReversal) =>
        /\ ~(LongSideDetected /\ ShortSideDetected)
        /\ LongSideDetected <=> PatternGate(patternType, "Long")
        /\ ShortSideDetected <=> PatternGate(patternType, "Short")
        /\ DetectLongPinbarReversal(candles, emaLevels) =>
              patternType \in {"Long2CandlestickReversal", "LongPinbarReversal"}

\* A long pinbar that is no 2-candlestick reversal is reported as such, after
\* the Short2 check has been made on the same tail.
C28_Witness ==
    /\ detectPc = "done"
    /\ Len(candles) = 3
    /\ WellFormedReversal
    /\ DetectLongPinbarReversal(candles, emaLevels)
    /\ ~DetectLong2CandlestickReversal(candles, emaLevels)
    /\ patternType = "LongPinbarReversal"

\* The flags of a ProcessingResult agree with each other.
ConsistentFlags(r) ==
    /\ r.Processed
    /\ ~(r.IsLongValid /\ r.IsShortValid)
    /\ r.IsValid = (r.IsLongValid \/ r.IsShortValid)
    /\ ~r.Success => (r.Error # NoError /\ ~r.IsValid /\ ~r.IsLongValid /\ ~r.IsShortValid)
    /\ r.Success => r.Error = NoError

\* C29: every result processStock returns has consistent flags (Processed set,
\* not both scenario flags, IsValid their disjunction, a failure carries an
\* error and no validity flag, a success no error), and the symbol was added
\* to the long watch list iff IsLongValid, to the short one iff IsShortValid,
\* so to a watch list iff IsValid.
C29_ResultFlagsConsistent ==
    /\ \A i \in Positions : \A k \in 1..Len(evalLog[i].sent) :
          LET r == evalLog[i].sent[k]
          IN /\ ConsistentFlags(r)
             /\ r.Symbol = stocks[i]
             /\ evalLog[i].addLong = (IF r.IsLongValid THEN 1 ELSE 0)
             /\ evalLog[i].addShort = (IF r.IsShortValid THEN 1 ELSE 0)
             /\ (evalLog[i].addLong + evalLog[i].addShort > 0) = r.IsValid
    /\ \A w \in Workers :
          wPc[w] = "send" =>
             /\ ConsistentFlags(wResult[w])
             /\ evalLog[wStock[w]].addLong = (IF wResult[w].IsLongValid THEN 1 ELSE 0)
             /\ evalLog[wStock[w]].addShort = (IF wResult[w].IsShortValid THEN 1 ELSE 0)
    /\ \A k \in 1..Len(resultChan) : ConsistentFlags(resultChan[k])

\* A result valid for Short and a failed result have both been emitted.
C29_Witness ==
    /\ Len(stocks) = 2
    /\ evalLog[1].sent # <<>> /\ evalLog[2].sent # <<>>
    /\ evalLog[1].sent[1].IsShortValid /\ evalLog[1].sent[1].IsValid
    /\ evalLog[1].addShort = 1 /\ evalLog[1].addLong = 0
    /\ ~evalLog[2].sent[1].Success
    /\ evalLog[2].sent[1].Error = FetchError

\* MACD equals Signal at the last bar and at each of the five bars before it,
\* each of these prefixes at least as long as the slow period.
TieAtLastSixBars(h) ==
    /\ h.closesLen - AcceptableCount >= MACDSlowPeriod
    /\ \A k \in 1..MaxMarketCount : h.macdCmp[k] = 0

\* C30: a tie between MACD and Signal is counted as the opposite state by both
\* acceptable-market checks: with a tie at the last six bars
\* IsBearMarketAcceptable and IsBullMarketAcceptable both return false, and
\* the MACD gate fails for the Long and for the Short scenario on that series.
C30_TieFailsBothChecks ==
    (calcPc = "done" /\ TieAtLastSixBars(history)) =>
        /\ calcOp.name \in {"IsBearMarketAcceptable", "IsBullMarketAcceptable"} =>
              calcOut = FALSE
        /\ ~MACDGate(history, "Long")
        /\ ~MACDGate(history, "Short")

\* IsBullMarketAcceptable has returned false on a series with a tie at the
\* last six bars, the shortest such series.
C30_Witness ==
    /\ calcPc = "done"
    /\ calcOp.name = "IsBullMarketAcceptable"
    /\ history.closesLen = MACDSlowPeriod + AcceptableCount
    /\ TieAtLastSixBars(history)
    /\ calcOut = FALSE

====
